---- MODULE Spec2Model ----
(***************************************************************************)
(* The product-video pipeline of core/tasks.py: the orchestrator, the      *)
(* three stages, the two continuation callbacks and the e-mail notifier,   *)
(* run by a Celery worker pool over a broker queue, a Redis state store    *)
(* and the VideoGeneration / ProductPrompt tables.                         *)
(*                                                                         *)
(* One run is followed from the dispatch of the orchestrator task to the   *)
(* end of its chain.  Python dicts are functions from key strings to       *)
(* values; URLs and titles are sequences of characters, so that lower()    *)
(* and endswith() are computed rather than assumed.                        *)
(***************************************************************************)
EXTENDS Integers, Sequences, FiniteSets, TLC

VARIABLES
    request,    \* the task data the run was dispatched with
    queue,      \* broker: the task messages waiting for a worker
    running,    \* the stage executions in progress (a stage has started, not returned)
    records,    \* VideoGeneration table: id -> row
    prompts,    \* ProductPrompt table: rows in creation order
    store,      \* Redis backend: key -> [value, ttl]
    results,    \* task name -> how the task ended (its return value or its exception)
    fal,        \* FalService.generate_svd_video in progress: phase, polls made, result
    calls,      \* collaborator calls made so far, per collaborator
    log         \* the events of the run, in order of occurrence

vars == <<request, queue, running, records, prompts, store, results, fal, calls, log>>

None == "None"

----------------------------------------------------------------------------
(* Text.                                                                   *)

\* str.lower() on the characters the inputs use
LowerChar(c) ==
    CASE c = "L" -> "l"
      [] c = "A" -> "a"
      [] c = "M" -> "m"
      [] c = "P" -> "p"
      [] c = "N" -> "n"
      [] c = "G" -> "g"
      [] OTHER -> c

Lower(s) == [i \in DOMAIN s |-> LowerChar(s[i])]

\* str.endswith(suffix)
EndsWith(s, suffix) ==
    /\ Len(s) >= Len(suffix)
    /\ SubSeq(s, Len(s) - Len(suffix) + 1, Len(s)) = suffix

\* dict.get(key, default)
Get(d, k, default) == IF k \in DOMAIN d THEN d[k] ELSE default

\* {**d, **e}: the keys of e override those of d
Merge(d, e) == e @@ d

\* the keys whose values are character sequences (the others hold strings)
SeqKeys == {"file_url", "edited_image_url", "product_title"}

\* not d[k]: the empty string or None
Falsy(d, k) == IF k \in SeqKeys THEN d[k] = <<>> ELSE d[k] \in {"", None}

\* [f for f in required if f not in data or not data[f]]
MissingFields(d, required) ==
    {f \in required : f \notin DOMAIN d \/ Falsy(d, f)}

\* str(n) for the identifiers the tables hand out
IdStr(n) == CASE n = 1 -> "1" [] n = 2 -> "2" [] n = 3 -> "3" [] OTHER -> "4"

----------------------------------------------------------------------------
(* Error messages.  A message is its leading text (tag), the text it was   *)
(* built around (cause) and its length: what the code writes to            *)
(* error_message is a prefix, the text of an exception and possibly a      *)
(* slice.                                                                  *)

ShortErr == 20
LongErr == 300
ErrLens == {ShortErr, LongErr}

\* len(json.dumps({'message': '', 'task_id': None, 'original_error': None}))
CeleryJsonOverhead == 56

NoError == [tag |-> None, cause |-> None, len |-> 0]

\* a literal text of n characters
Text(tag, n) == [tag |-> tag, cause |-> tag, len |-> n]

\* f"{prefix}{m}" for a prefix of p characters
Prefix(tag, p, m) == [tag |-> tag, cause |-> m.cause, len |-> p + m.len]

Min(a, b) == IF a <= b THEN a ELSE b

\* m[:k]
Slice(m, k) == [m EXCEPT !.len = Min(m.len, k)]

\* an exception: its class and its message
Exc(cls, m) == [cls |-> cls, msg |-> m]

\* str(e): CeleryTaskError.__str__ dumps a JSON object around the message
Str(e) ==
    IF e.cls = "CeleryTaskError"
    THEN [e.msg EXCEPT !.len = @ + CeleryJsonOverhead]
    ELSE e.msg

----------------------------------------------------------------------------
(* The inputs of a run.                                                    *)

OrchTaskId == "t1"

Png  == <<"a", ".", "p", "n", "g">>
PngU == <<"a", ".", "P", "N", "G">>
Jpg  == <<"a", ".", "j", "p", "g">>
Jpeg == <<"a", ".", "j", "p", "e", "g">>
Webp == <<"a", ".", "w", "e", "b", "p">>
Pdf  == <<"a", ".", "p", "d", "f">>

FileUrls == {Png, PngU, Jpg, Jpeg, Webp, Pdf, <<>>}

Lamp == <<"L", "a", "m", "p">>
LAMP == <<"L", "A", "M", "P">>

BaseInput == [email |-> "a@b.com", product_title |-> Lamp,
              product_description |-> "A lamp", file_url |-> Png,
              video_duration |-> "5", skip_image_editing |-> FALSE]

\* every file against both settings of the flag; an empty e-mail address and
\* the other duration against both settings of the flag
FullInputs ==
    { [BaseInput EXCEPT !.file_url = u, !.skip_image_editing = s] :
        u \in FileUrls, s \in BOOLEAN }
    \cup { [BaseInput EXCEPT !.email = "", !.skip_image_editing = s] : s \in BOOLEAN }
    \cup { [BaseInput EXCEPT !.video_duration = "10", !.skip_image_editing = s] :
             s \in BOOLEAN }

RequiredInput == {"email", "product_title", "product_description", "file_url"}

Restrict(d, keys) == [k \in keys |-> d[k]]

\* dicts that lack one required key, and one that has only the required keys
PartialInputs ==
    { Restrict(BaseInput, DOMAIN BaseInput \ {k}) : k \in RequiredInput }
    \cup { Restrict(BaseInput, RequiredInput) }

Inputs == FullInputs \cup PartialInputs

----------------------------------------------------------------------------
(* task_error_handler (utils/error_handlers.py).                           *)

\* requests.exceptions.RequestException, TimeoutError, ConnectionError
RetryFor == {"RequestException", "TimeoutError", "ConnectionError"}

Returned(v) == [kind |-> "return", value |-> v]
Raised(e) == [kind |-> "raise", exc |-> e]

\* 2 ** n
RECURSIVE Pow2(_)
Pow2(n) == IF n = 0 THEN 1 ELSE 2 * Pow2(n - 1)

\* the dict the wrapper returns for an exception it does not re-raise
FailedResult(e, tid) ==
    [status |-> "failed", error |-> Str(e),
     error_type |-> e.cls, task_id |-> tid]

\* the classes an exception class derives from, itself included, among
\* those `except retry_for` can match
Bases(cls) ==
    IF cls \in {"Timeout", "HTTPError"} THEN {cls, "RequestException"}
    ELSE {cls}

\* isinstance(exc, retry_for)
Retriable(cls) == Bases(cls) \cap RetryFor # {}

\* a variant that asks for one retry more than max_retries
TaskErrorHandlerOneMore(out, retries, max_retries, tid) ==
    IF out.kind = "return" THEN out
    ELSE IF out.exc.cls = "Retry" THEN out
    ELSE IF Retriable(out.exc.cls) THEN
        IF retries <= max_retries
        THEN [kind |-> "retry", countdown |-> Pow2(retries), exc |-> out.exc]
        ELSE Returned(FailedResult(out.exc, tid) @@ [retries_exhausted |-> TRUE])
    ELSE Returned(FailedResult(out.exc, tid))

\* a variant whose delay grows by one with every retry
TaskErrorHandlerLinear(out, retries, max_retries, tid) ==
    IF out.kind = "return" THEN out
    ELSE IF out.exc.cls = "Retry" THEN out
    ELSE IF Retriable(out.exc.cls) THEN
        IF retries < max_retries
        THEN [kind |-> "retry", countdown |-> retries + 1, exc |-> out.exc]
        ELSE Returned(FailedResult(out.exc, tid) @@ [retries_exhausted |-> TRUE])
    ELSE Returned(FailedResult(out.exc, tid))

\* a variant without the handler `except Exception`
TaskErrorHandlerReraise(out, retries, max_retries, tid) ==
    IF out.kind = "return" THEN out
    ELSE IF out.exc.cls = "Retry" THEN out
    ELSE IF Retriable(out.exc.cls) THEN
        IF retries < max_retries
        THEN [kind |-> "retry", countdown |-> Pow2(retries), exc |-> out.exc]
        ELSE Returned(FailedResult(out.exc, tid) @@ [retries_exhausted |-> TRUE])
    ELSE out

\* a variant that retries whatever the class of the exception
TaskErrorHandlerRetryAll(out, retries, max_retries, tid) ==
    IF out.kind = "return" THEN out
    ELSE IF out.exc.cls = "Retry" THEN out
    ELSE IF retries < max_retries
    THEN [kind |-> "retry", countdown |-> Pow2(retries), exc |-> out.exc]
    ELSE Returned(FailedResult(out.exc, tid) @@ [retries_exhausted |-> TRUE])

\* wrapper(task_self, ...): `out` is how the body ended, `retries` is
\* task_self.request.retries.  The result is a return, a raise of Retry
\* (task_self.retry with its countdown) or a Retry passed through.
TaskErrorHandler(out, retries, max_retries, tid) ==
    IF out.kind = "return" THEN out
    ELSE IF out.exc.cls = "Retry" THEN out
    ELSE IF Retriable(out.exc.cls) THEN
        IF retries < max_retries
        THEN [kind |-> "retry", countdown |-> Pow2(retries), exc |-> out.exc]
        ELSE Returned(FailedResult(out.exc, tid) @@ [retries_exhausted |-> TRUE])
    ELSE Returned(FailedResult(out.exc, tid))

----------------------------------------------------------------------------
(* The tables and the store.                                               *)

\* a variant that adds a row when the row has the values already
UpdateOrInsert(recs, id, fields) ==
    IF id \notin DOMAIN recs THEN recs
    ELSE IF \A k \in DOMAIN fields : recs[id][k] = fields[k]
    THEN ("copy" :> recs[id]) @@ recs
    ELSE [recs EXCEPT ![id] = fields @@ @]

\* VideoGeneration.objects.filter(id=id).update(**fields)
Update(recs, id, fields) ==
    IF id \in DOMAIN recs THEN [recs EXCEPT ![id] = fields @@ @] ELSE recs

\* a variant in which the key is made from the id of the row, not of the task
StateKeyOfRun(tid) == <<"video_gen_data_", "1">>

\* f"video_gen_data_{task_id}"
StateKey(tid) == <<"video_gen_data_", tid>>

\* setex(key, 3600, ...)
StoreTTL == 3600

\* An event of the log: what happened, to what, and the task that did it.
\*   dispatch / start / return / raise   of a task
\*   create, create_failed               of a VideoGeneration row
\*   setex, setex_failed, state_missing  of a store key
\*   sched, sched_failed                 of a task sent to the broker
\*   write, write_failed                 of a status
\*   call                                of a collaborator
Ev(kind, what, by) == <<kind, what, by>>

Logged(l, evs) == l \o evs

----------------------------------------------------------------------------
(* Tasks in the broker.  A chain(a | b) is the message of a with b as its  *)
(* link: b is sent, with a's return value as first argument, when a        *)
(* returns.  The link is <<b>>, or << >> for a task sent on its own.       *)

Task(name, arg, parent, link) ==
    [name |-> name, arg |-> arg, parent |-> parent, link |-> link]

PromptRowsInit ==
    { <<>>,
      << [id |-> "1", product_title |-> LAMP, is_approved |-> TRUE,
          prompt_text |-> "stored", email |-> "x@y.com"] >>,
      << [id |-> "1", product_title |-> Lamp, is_approved |-> FALSE,
          prompt_text |-> "stored", email |-> "x@y.com"] >> }

\* the state of one call of generate_svd_video: where it stands, the polls
\* that ended nothing, the result URL, the error raised; status is the status
\* the last poll reported (None when it reported none) and neterr tells that
\* some poll of the call failed with a RequestException; payload is the
\* payload of the job submitted, <<payload>>, or << >> when none was
FalIdle == [phase |-> "idle", attempt |-> 0, url |-> None, err |-> NoError,
            status |-> None, neterr |-> FALSE, payload |-> << >>]

Init ==
    /\ request = << >>
    /\ queue = {}
    /\ running = {}
    /\ records = << >>
    /\ prompts \in PromptRowsInit
    /\ store = << >>
    /\ results = << >>
    /\ fal = FalIdle
    /\ calls = [prompt |-> 0, edit |-> 0, submit |-> 0, mail |-> 0]
    /\ log = << >>

\* process_complete_video_generation.apply_async(args=[task_data]): by
\* views.index_view for an upload it has validated, or by any other caller
\* of the task, with the dict it chooses
Dispatch ==
    /\ log = << >>
    /\ \E data \in Inputs :
         /\ request' = data
         /\ queue' = {Task("orchestrator", data, OrchTaskId, << >>)}
    /\ log' = <<Ev("dispatch", "orchestrator", "view")>>
    /\ UNCHANGED <<running, records, prompts, store, results, fal, calls>>

----------------------------------------------------------------------------
(* process_complete_video_generation.                                      *)

\* VideoGeneration.objects.create(...): the four columns are NOT NULL, so a
\* key that data.get() finds absent makes the insert fail
CreateFails(data) == RequiredInput \ DOMAIN data # {}

NewRow(data, tid) ==
    [task_id |-> tid, email |-> data.email, product_title |-> data.product_title,
     product_description |-> data.product_description,
     input_image_url |-> data.file_url, status |-> "pending",
     output_video_url |-> None, error_message |-> NoError]

\* f"Failed to start the Celery chain: {e}"
ChainError(n) == Prefix("Failed to start the Celery chain", 34, Text("broker", n))

\* str(video_gen.id) of the row the insert creates
NewId(recs) == IdStr(Cardinality(DOMAIN recs) + 1)

\* data['video_generation_id'] = video_gen_id
WithId(data, id) == Merge(data, [video_generation_id |-> id])

\* chain(generate_prompt.s(data, tid) | continue_with_image_edit.s(tid))
PromptChain(data, tid) ==
    Task("generate_prompt", data, tid,
         <<[name |-> "continue_with_image_edit", parent |-> tid]>>)

\* The ways the orchestrator ends, each as [records, store, send, events, out];
\* n is the length of the text of the exception the environment raised.

\* the insert, the setex and the chain's apply_async all went through
ChainStarted(data, tid, recs, st, n) ==
    LET id == NewId(recs) IN
    [records |-> (id :> NewRow(data, tid)) @@ recs,
     store |-> (StateKey(tid) :> [value |-> WithId(data, id), ttl |-> StoreTTL]) @@ st,
     send |-> {PromptChain(WithId(data, id), tid)},
     events |-> <<Ev("create", id, "orchestrator"),
                   Ev("setex", tid, "orchestrator"),
                   Ev("sched", "generate_prompt", "orchestrator")>>,
     out |-> Returned([status |-> "PENDING", task_id |-> tid,
                       video_generation_id |-> id])]

\* apply_async raised
ChainFailed(data, tid, recs, st, n) ==
    LET id == NewId(recs) IN
    [records |-> Update((id :> NewRow(data, tid)) @@ recs, id,
                        [status |-> "failed", error_message |-> ChainError(n)]),
     store |-> (StateKey(tid) :> [value |-> WithId(data, id), ttl |-> StoreTTL]) @@ st,
     send |-> {},
     events |-> <<Ev("create", id, "orchestrator"),
                   Ev("setex", tid, "orchestrator"),
                   Ev("sched_failed", "generate_prompt", "orchestrator"),
                   Ev("write", "failed", "orchestrator")>>,
     out |-> Raised(Exc("CeleryTaskError", ChainError(n)))]

\* a variant in which the failure of setex is only logged and the chain is
\* started all the same
StoreFailedIgnored(data, tid, recs, st, n) ==
    LET id == NewId(recs) IN
    [records |-> (id :> NewRow(data, tid)) @@ recs,
     store |-> st,
     send |-> {PromptChain(WithId(data, id), tid)},
     events |-> <<Ev("create", id, "orchestrator"),
                   Ev("setex_failed", tid, "orchestrator"),
                   Ev("sched", "generate_prompt", "orchestrator")>>,
     out |-> Returned([status |-> "PENDING", task_id |-> tid,
                       video_generation_id |-> id])]

\* setex raised
StoreFailed(data, tid, recs, st, n) ==
    LET id == NewId(recs) IN
    [records |-> Update((id :> NewRow(data, tid)) @@ recs, id,
                        [status |-> "failed",
                         error_message |->
                            Prefix("Backend Error", 15, Text("redis", n))]),
     store |-> st,
     send |-> {},
     events |-> <<Ev("create", id, "orchestrator"),
                   Ev("setex_failed", tid, "orchestrator"),
                   Ev("write", "failed", "orchestrator")>>,
     out |-> Raised(Exc("CeleryTaskError",
                        Prefix("Backend error storing state", 29,
                               Text("redis", n))))]

\* a variant in which the failure of the insert is only logged and the
\* orchestrator goes on without a row
CreateFailedIgnored(data, tid, recs, st, n) ==
    [records |-> recs,
     store |-> (StateKey(tid) :> [value |-> data, ttl |-> StoreTTL]) @@ st,
     send |-> {PromptChain(data, tid)},
     events |-> <<Ev("create_failed", NewId(recs), "orchestrator"),
                   Ev("setex", tid, "orchestrator"),
                   Ev("sched", "generate_prompt", "orchestrator")>>,
     out |-> Returned([status |-> "PENDING", task_id |-> tid,
                       video_generation_id |-> None])]

\* the insert raised
CreateFailed(data, tid, recs, st, n) ==
    [records |-> recs, store |-> st, send |-> {},
     events |-> <<Ev("create_failed", NewId(recs), "orchestrator")>>,
     out |-> Raised(Exc("CeleryTaskError",
                        Prefix("DB error creating VideoGeneration record",
                               42, Text("db", n))))]

\* a variant that submits the first two stages side by side, not as a chain
OrchestratorBodyGroup(data, tid, recs, st, createOk, storeOk, chainOk, n) ==
    IF ~createOk \/ CreateFails(data) THEN CreateFailed(data, tid, recs, st, n)
    ELSE IF ~storeOk THEN StoreFailed(data, tid, recs, st, n)
    ELSE IF ~chainOk THEN ChainFailed(data, tid, recs, st, n)
    ELSE [ChainStarted(data, tid, recs, st, n) EXCEPT
            !.send = @ \cup {Task("edit_product_image",
                                   WithId(data, NewId(recs)), tid, << >>)}]

\* The body of the orchestrator.  createOk, storeOk and chainOk say whether
\* the insert, the setex and the chain's apply_async go through.
OrchestratorBody(data, tid, recs, st, createOk, storeOk, chainOk, n) ==
    IF ~createOk \/ CreateFails(data) THEN CreateFailed(data, tid, recs, st, n)
    ELSE IF ~storeOk THEN StoreFailed(data, tid, recs, st, n)
    ELSE IF ~chainOk THEN ChainFailed(data, tid, recs, st, n)
    ELSE ChainStarted(data, tid, recs, st, n)

Orchestrator ==
    \E t \in queue : \E createOk, storeOk, chainOk \in BOOLEAN, n \in ErrLens :
        /\ t.name = "orchestrator"
        /\ LET r == OrchestratorBody(t.arg, t.parent, records, store,
                                     createOk, storeOk, chainOk, n)
               w == TaskErrorHandler(r.out, 0, 2, t.parent)
           IN  /\ records' = r.records
               /\ store' = r.store
               /\ queue' = (queue \ {t}) \cup r.send
               /\ results' = ("orchestrator" :> w) @@ results
               /\ log' = Logged(log, r.events \o
                                     <<Ev("return", "orchestrator", "orchestrator")>>)
        /\ UNCHANGED <<request, running, prompts, fal, calls>>

----------------------------------------------------------------------------
(* PromptStage: generate_prompt_with_openrouter and the prompt service.    *)

\* a variant that compares the titles as they are written
FindSimilarPromptExact(rows, title) ==
    LET hits == {i \in DOMAIN rows :
                    /\ rows[i].product_title = title
                    /\ rows[i].is_approved}
    IN  IF hits = {} THEN << >>
        ELSE << rows[CHOOSE i \in hits : \A j \in hits : j <= i] >>

\* ProductPrompt.find_similar_prompt: the approved rows whose title matches
\* case-insensitively, newest first; <<row>> or << >>
FindSimilarPrompt(rows, title) ==
    LET hits == {i \in DOMAIN rows :
                    /\ Lower(rows[i].product_title) = Lower(title)
                    /\ rows[i].is_approved}
    IN  IF hits = {} THEN << >>
        ELSE << rows[CHOOSE i \in hits : \A j \in hits : j <= i] >>

\* OpenRouterClient.RETRY_ATTEMPTS
RETRY_ATTEMPTS == 3

\* what one POST to the collaborator can come to: a completion, a completion
\* whose text is blank, a response without choices, an HTTP error status, or
\* requests.post raising
PromptCallOutcomes == {"ok", "blank", "no_content", "http_error", "network_error"}

\* OpenRouterClient.generate_prompt: the loop `while retries < max_retries`
\* over the outcomes outs[1], outs[2], ... of the successive POSTs
RECURSIVE GeneratePrompt(_, _, _)
GeneratePrompt(outs, retries, n) ==
    IF retries >= RETRY_ATTEMPTS
    THEN [out |-> Raised(Exc("OpenRouterError",
                             Text("Unexpected error in retry loop", 30))), posts |-> retries]
    ELSE LET o == outs[retries + 1] IN
         IF o = "ok" THEN [out |-> Returned("generated"), posts |-> retries + 1]
         ELSE IF o = "blank" THEN [out |-> Returned(""), posts |-> retries + 1]
         ELSE IF o = "network_error"
         THEN [out |-> Raised(Exc("RequestException", Text("network", n))), posts |-> retries + 1]
         ELSE IF retries + 1 >= RETRY_ATTEMPTS
         THEN [out |-> Raised(Exc("OpenRouterError",
                                  IF o = "no_content"
                                  THEN Text("No content found in response", 28)
                                  ELSE Text("OpenRouter API error", n))),
               posts |-> retries + 1]
         ELSE GeneratePrompt(outs, retries + 1, n)

\* get_or_generate_prompt once no row was found: the call of the
\* collaborator and, in a transaction of its own, the insert of the new row
GenerateAndSave(rows, data, outs, n) ==
    LET g   == GeneratePrompt(outs, 0, n)
        row == [id |-> IdStr(Len(rows) + 1),
                product_title |-> data.product_title,
                is_approved |-> TRUE,
                prompt_text |-> g.out.value, email |-> data.email]
    IN  IF g.out.kind = "return"
        THEN [out |-> Returned(row), rows |-> Append(rows, row),
              posts |-> g.posts]
        ELSE [out |-> g.out, rows |-> rows, posts |-> g.posts]

\* PromptService.get_or_generate_prompt(email, title, description):
\* [out, rows, posts], out returning the row used
GetOrGeneratePrompt(rows, data, outs, n) ==
    IF MissingFields(data, {"product_title", "product_description", "email"}) # {}
    THEN [out |-> Raised(Exc("ValueError", Text("required", 50))), rows |-> rows, posts |-> 0]
    ELSE LET existing == FindSimilarPrompt(rows, data.product_title) IN
         IF existing # << >>
         THEN [out |-> Returned(existing[1]), rows |-> rows, posts |-> 0]
         ELSE GenerateAndSave(rows, data, outs, n)

\* what the task makes of the answer g of the service: the dict of a
\* success, or the dict of a failure for an exception
PromptResult(g, tid) ==
    IF g.out.kind = "raise"
    THEN [out |-> Returned([status |-> "failed",
                            error |-> Prefix("Prompt generation/retrieval failed",
                                             36, Str(g.out.exc)),
                            error_type |-> g.out.exc.cls,
                            task_id |-> "prompt"]),
          rows |-> g.rows, posts |-> g.posts]
    ELSE [out |-> Returned([status |-> "success",
                            prompt_text |-> g.out.value.prompt_text,
                            prompt_id |-> g.out.value.id,
                            task_id |-> "prompt",
                            orchestrator_task_id |-> tid]),
          rows |-> g.rows, posts |-> g.posts]

\* The body of generate_prompt_with_openrouter.  serviceOk: get_prompt_service()
\* finds its API key (it is called outside the try block).
PromptBody(data, tid, rows, serviceOk, outs, n) ==
    IF ~serviceOk
    THEN [out |-> Raised(Exc("OpenRouterError",
                             Text("OpenRouter API key is required", 76))), rows |-> rows, posts |-> 0]
    ELSE PromptResult(GetOrGeneratePrompt(rows, data, outs, n), tid)

\* a worker takes a stage's message from the broker and begins to run it
StageStart(name) ==
    \E t \in queue :
        /\ t.name = name
        /\ queue' = queue \ {t}
        /\ running' = running \cup {t}
        /\ log' = Logged(log, <<Ev("start", name, name)>>)
        /\ UNCHANGED <<request, records, prompts, store, results, fal, calls>>

\* the link of a chain is sent with the return value of the task before it
LinkOf(t, w) ==
    IF t.link = << >> \/ w.kind # "return" THEN {}
    ELSE {Task(t.link[1].name, w.value, t.link[1].parent, << >>)}

PromptStart == StageStart("generate_prompt")

PromptFinish ==
    \E t \in running :
    \E serviceOk \in BOOLEAN, outs \in [1..RETRY_ATTEMPTS -> PromptCallOutcomes],
       n \in ErrLens :
        /\ t.name = "generate_prompt"
        /\ LET r == PromptBody(t.arg, t.parent, prompts, serviceOk, outs, n)
               w == TaskErrorHandler(r.out, 0, 3, "prompt")
           IN  /\ prompts' = r.rows
               /\ calls' = [calls EXCEPT !.prompt = @ + r.posts]
               /\ results' = ("generate_prompt" :> w) @@ results
               /\ queue' = queue \cup LinkOf(t, w)
               /\ log' = Logged(log, (IF r.posts > 0
                                      THEN <<Ev("call", "prompt", "generate_prompt")>>
                                      ELSE << >>)
                                     \o <<Ev("return", "generate_prompt",
                                             "generate_prompt")>>)
        /\ running' = running \ {t}
        /\ UNCHANGED <<request, records, store, fal>>

----------------------------------------------------------------------------
(* The state store loses the key: the TTL runs out (or Redis evicts it).   *)
(* Only the continuations read the key, so the loss is placed where it can *)
(* be seen: while a continuation waits in the broker.                      *)

ContinuationNames == {"continue_with_image_edit", "continue_with_video_generation"}

Expire ==
    /\ DOMAIN store # {}
    /\ \E t \in queue : t.name \in ContinuationNames
    /\ store' = << >>
    /\ UNCHANGED <<request, queue, running, records, prompts, results, fal, calls, log>>

----------------------------------------------------------------------------
(* _continue_with_image_edit_callback.                                     *)

\* ('.png', '.jpg', '.jpeg', '.webp')
SupportedExt ==
    { <<".", "p", "n", "g">>, <<".", "j", "p", "g">>,
      <<".", "j", "p", "e", "g">>, <<".", "w", "e", "b", "p">> }

\* any(file_url.lower().endswith(ext) for ext in supported_img_ext)
IsSupportedImage(url) == \E ext \in SupportedExt : EndsWith(Lower(url), ext)

\* a variant that takes every result of PromptStage for a success
PromptAlwaysSucceeded(prompt_result) == TRUE

\* isinstance(result, dict) and result.get('status') == 'success'
PromptSucceeded(prompt_result) == Get(prompt_result, "status", None) = "success"

\* a variant that does not look at the flag
SkipIgnored(original_data) == FALSE

\* a variant that takes every run for one that skips the image edit
SkipAlways(original_data) == TRUE

\* original_data.get('skip_image_editing', False)
SkipRequested(original_data) == Get(original_data, "skip_image_editing", FALSE)

\* the data handed to generate_product_video on the skip path
SkipVideoData(original_data, prompt_result, id) ==
    Merge(original_data,
          [status |-> "success",
           edited_image_url |-> Get(original_data, "file_url", << >>),
           prompt |-> Get(prompt_result, "prompt_text", None),
           prompt_id |-> Get(prompt_result, "prompt_id", None),
           video_generation_id |-> id])

\* the data handed to edit_product_image
ImageEditData(original_data, prompt_result, id) ==
    Merge(original_data,
          [prompt |-> Get(prompt_result, "prompt_text", None),
           prompt_id |-> Get(prompt_result, "prompt_id", None),
           video_generation_id |-> id])

\* f"Failed to start video generation task (skipped editing): {e}"
SkipError(why, n) == Prefix("Failed to start video generation task", 57, Text(why, n))

\* f"Failed to chain image editing task: {e}"
EditChainError(n) == Prefix("Failed to chain image editing task", 36, Text("broker", n))

\* The body of the callback.  dbOk: the update of the status to 'processing'
\* or 'processing_video' goes through; schedOk: apply_async goes through;
\* n: the length of the text of the exception raised when one does not.
ImageEditCallbackBody(prompt_result, parent, recs, st, dbOk, schedOk, n) ==
    LET me   == "continue_with_image_edit"
        key  == StateKey(parent)
        data == st[key].value
        id   == data.video_generation_id
        failed(m) == Update(recs, id, [status |-> "failed", error_message |-> m])
    IN  IF key \notin DOMAIN st THEN
            [records |-> recs, send |-> {},
             events |-> <<Ev("state_missing", parent, me)>>,
             out |-> Raised(Exc("CeleryTaskError",
                                Text("Original data missing from backend state", 57)))]
        ELSE IF ~PromptSucceeded(prompt_result) THEN
            LET m == Prefix("Prompt generation failed", 26,
                            Get(prompt_result, "error", Text("Unknown error", 13))) IN
            [records |-> failed(m), send |-> {},
             events |-> <<Ev("write", "failed", me)>>,
             out |-> Returned([status |-> "FAILURE", error |-> m,
                               step |-> "callback_image_edit_validation"])]
        ELSE IF SkipRequested(data) THEN
            IF ~IsSupportedImage(Get(data, "file_url", << >>)) THEN
                LET m == Text("Cannot skip image editing",
                              129 + Len(Get(data, "file_url", << >>))) IN
                [records |-> failed(Slice(m, 255)), send |-> {},
                 events |-> <<Ev("write", "failed", me)>>,
                 out |-> Returned([status |-> "FAILURE", error |-> m,
                                   step |-> "skip_image_edit_validation"])]
            ELSE IF ~dbOk THEN
                [records |-> failed(SkipError("db", n)), send |-> {},
                 events |-> <<Ev("write_failed", "processing_video", me),
                              Ev("write", "failed", me)>>,
                 out |-> Raised(Exc("CeleryTaskError", SkipError("db", n)))]
            ELSE IF ~schedOk THEN
                [records |-> failed(SkipError("broker", n)), send |-> {},
                 events |-> <<Ev("write", "processing_video", me),
                              Ev("sched_failed", "generate_product_video", me),
                              Ev("write", "failed", me)>>,
                 out |-> Raised(Exc("CeleryTaskError", SkipError("broker", n)))]
            ELSE
                [records |-> Update(recs, id, [status |-> "processing_video"]),
                 send |-> {Task("generate_product_video",
                                SkipVideoData(data, prompt_result, id), parent, << >>)},
                 events |-> <<Ev("write", "processing_video", me),
                              Ev("sched", "generate_product_video", me)>>,
                 out |-> Returned([status |-> "SUCCESS"])]
        ELSE
            LET recs1 == IF dbOk THEN Update(recs, id, [status |-> "processing"])
                         ELSE recs
                w     == IF dbOk THEN Ev("write", "processing", me)
                         ELSE Ev("write_failed", "processing", me)
            IN  IF ~schedOk THEN
                    [records |-> Update(recs1, id,
                                    [status |-> "failed",
                                     error_message |-> EditChainError(n)]),
                     send |-> {},
                     events |-> <<w, Ev("sched_failed", "edit_product_image", me),
                                  Ev("write", "failed", me)>>,
                     out |-> Raised(Exc("CeleryTaskError", EditChainError(n)))]
                ELSE
                    [records |-> recs1,
                     send |-> {Task("edit_product_image",
                                    ImageEditData(data, prompt_result, id), parent,
                                    <<[name |-> "continue_with_video_generation",
                                       parent |-> parent]>>)},
                     events |-> <<w, Ev("sched", "edit_product_image", me)>>,
                     out |-> Returned([status |-> "SUCCESS"])]

\* a continuation runs from its message to its return or its exception
\* a variant that deletes the entry of the run once it has read it
ContinuationCleans(name, r, t) ==
    /\ records' = r.records
    /\ queue' = (queue \ {t}) \cup r.send
    /\ results' = (name :> r.out) @@ results
    /\ log' = Logged(log, <<Ev("start", name, name)>> \o r.events \o
                          <<Ev(r.out.kind, name, name)>>)
    /\ store' = << >>
    /\ UNCHANGED <<request, running, prompts, fal, calls>>

Continuation(name, r, t) ==
    /\ records' = r.records
    /\ queue' = (queue \ {t}) \cup r.send
    /\ results' = (name :> r.out) @@ results
    /\ log' = Logged(log, <<Ev("start", name, name)>> \o r.events \o
                          <<Ev(r.out.kind, name, name)>>)
    /\ UNCHANGED <<request, running, prompts, store, fal, calls>>

ContinueWithImageEdit ==
    \E t \in queue : \E dbOk, schedOk \in BOOLEAN, n \in ErrLens :
        /\ t.name = "continue_with_image_edit"
        /\ Continuation(t.name,
                        ImageEditCallbackBody(t.arg, t.parent, records, store,
                                              dbOk, schedOk, n), t)

----------------------------------------------------------------------------
(* ImageEditStage: edit_product_image.                                     *)

\* the URL the image-editing collaborator returns
EditedUrl == <<"e", ".", "p", "n", "g">>

\* what image_editing_service.edit_image can come to: the edited URL, or an
\* exception (RateLimitError, RequestException on the download, ValueError
\* for a response without a URL)
EditOutcomes == {"ok", "rate_limit", "network_error", "bad_response"}

EditExc(o, n) ==
    CASE o = "rate_limit" -> Exc("RateLimitError", Text("rate limit", n))
      [] o = "network_error" -> Exc("RequestException", Text("network", n))
      [] OTHER -> Exc("ValueError", Text("Invalid response format from OpenAI API", 39))

\* lower_url.endswith(('.png', '.jpg', '.jpeg', '.webp'))
EditAccepts(url) == \E ext \in SupportedExt : EndsWith(Lower(url), ext)

\* a variant that, when the collaborator fails, hands the data on with the
\* status 'failed' and the original image in the place of the edited one
ImageEditBodyFallback(data, tid, o, n) ==
    IF MissingFields(data, {"file_url", "prompt", "prompt_id"}) # {} THEN
        [out |-> Raised(Exc("CeleryTaskError",
                            Text("Missing required fields for image editing", 49))),
         called |-> FALSE]
    ELSE IF ~EditAccepts(data.file_url) THEN
        [out |-> Raised(Exc("CeleryTaskError",
                            Text("Unsupported input file type for image editing",
                                 116 + Len(data.file_url)))),
         called |-> FALSE]
    ELSE
        [out |-> Returned(Merge(data, [status |-> IF o = "ok" THEN "success"
                                                  ELSE "failed",
                                       edited_image_url |-> IF o = "ok" THEN EditedUrl
                                                            ELSE data.file_url,
                                       orchestrator_task_id |-> tid])),
         called |-> TRUE]

\* The body of edit_product_image: [out, called], called saying whether the
\* collaborator was invoked.
ImageEditBody(data, tid, o, n) ==
    IF MissingFields(data, {"file_url", "prompt", "prompt_id"}) # {} THEN
        [out |-> Raised(Exc("CeleryTaskError",
                            Text("Missing required fields for image editing", 49))),
         called |-> FALSE]
    ELSE IF ~EditAccepts(data.file_url) THEN
        [out |-> Raised(Exc("CeleryTaskError",
                            Text("Unsupported input file type for image editing",
                                 116 + Len(data.file_url)))),
         called |-> FALSE]
    ELSE IF o = "ok" THEN
        [out |-> Returned(Merge(data, [status |-> "success",
                                       edited_image_url |-> EditedUrl,
                                       orchestrator_task_id |-> tid])),
         called |-> TRUE]
    ELSE
        [out |-> Raised(Exc("CeleryTaskError",
                            Prefix("Image editing failed", 22, Str(EditExc(o, n))))),
         called |-> TRUE]

EditStart == StageStart("edit_product_image")

EditFinish ==
    \E t \in running : \E o \in EditOutcomes, n \in ErrLens :
        /\ t.name = "edit_product_image"
        /\ LET r == ImageEditBody(t.arg, t.parent, o, n)
               w == TaskErrorHandler(r.out, 0, 2, "edit")
           IN  /\ calls' = [calls EXCEPT !.edit = @ + (IF r.called THEN 1 ELSE 0)]
               /\ results' = ("edit_product_image" :> w) @@ results
               /\ queue' = queue \cup LinkOf(t, w)
               /\ log' = Logged(log, (IF r.called
                                      THEN <<Ev("call", "edit", "edit_product_image")>>
                                      ELSE << >>)
                                     \o <<Ev("return", "edit_product_image",
                                             "edit_product_image")>>)
        /\ running' = running \ {t}
        /\ UNCHANGED <<request, records, prompts, store, fal>>

----------------------------------------------------------------------------
(* _continue_with_video_generation_callback.                               *)

\* the download of the edited image (requests.get) and the check of its URL
\* (requests.head): both fine, the download failing, the check answering a
\* status other than 200, or the check itself raising RequestException
FetchOutcomes == {"ok", "get_failed", "head_not_200", "head_error"}

\* f"Callback Error: {str(e)[:200]}"
CallbackError(e) == Prefix("Callback Error", 16, Slice(Str(e), 200))

\* the data handed to generate_product_video after the image edit
VideoData(original_data, image_result, url, id, parent) ==
    Merge(Merge(original_data, image_result),
          [edited_image_url |-> url, video_generation_id |-> id,
           orchestrator_task_id |-> parent])

\* a variant in which a failed update to 'processing_video' is only logged
\* and the video stage is scheduled all the same
VideoCallbackBodyLenient(image_result, parent, recs, st, f, dbOk, schedOk, n) ==
    LET me   == "continue_with_video_generation"
        key  == StateKey(parent)
        data == st[key].value
        id   == data.video_generation_id
        url  == Get(image_result, "edited_image_url", << >>)
        \* the handler `except Exception` of the callback
        caught(e, recs1, evs) ==
            [records |-> Update(recs1, id, [status |-> "failed",
                                            error_message |-> CallbackError(e)]),
             send |-> {}, events |-> evs \o <<Ev("write", "failed", me)>>,
             out |-> Raised(e)]
        err(m) == Exc("CeleryTaskError", m)
    IN  IF key \notin DOMAIN st THEN
            [records |-> recs, send |-> {},
             events |-> <<Ev("state_missing", parent, me)>>,
             out |-> Raised(err(Text("Could not retrieve original data from backend",
                                     67)))]
        ELSE IF Get(image_result, "status", None) = "error" THEN
            [records |-> Update(recs, id,
                            [status |-> "failed",
                             error_message |->
                                Prefix("Image Editing Error", 21,
                                       Slice(Get(image_result, "message",
                                                 Text("Image editing failed.", 21)),
                                             250))]),
             send |-> {}, events |-> <<Ev("write", "failed", me)>>,
             out |-> Returned([status |-> "error"])]
        ELSE IF url = << >> THEN
            caught(err(Text("Edited image URL not found in image_result", 48)),
                   recs, << >>)
        ELSE IF f = "get_failed" THEN
            caught(err(Prefix("Failed to download edited image", 45 + Len(url),
                              Text("network", n))), recs, << >>)
        ELSE IF f = "head_not_200" THEN
            caught(err(Prefix("Failed to upload edited image", 43,
                              Str(err(Text("OpenAI image is not accessible", 42))))),
                   recs, << >>)
        ELSE IF ~dbOk /\ schedOk THEN
            [records |-> recs,
             send |-> {Task("generate_product_video",
                            VideoData(data, image_result, url, id, parent),
                            parent, << >>)},
             events |-> <<Ev("write_failed", "processing_video", me),
                          Ev("sched", "generate_product_video", me)>>,
             out |-> Returned([status |-> "SUCCESS"])]
        ELSE IF ~schedOk THEN
            caught(Exc("OperationalError", Text("broker", n)),
                   Update(recs, id, [status |-> "processing_video"]),
                   <<Ev("write", "processing_video", me),
                     Ev("sched_failed", "generate_product_video", me)>>)
        ELSE
            [records |-> Update(recs, id, [status |-> "processing_video"]),
             send |-> {Task("generate_product_video",
                            VideoData(data, image_result, url, id, parent),
                            parent, << >>)},
             events |-> <<Ev("write", "processing_video", me),
                          Ev("sched", "generate_product_video", me)>>,
             out |-> Returned([status |-> "SUCCESS"])]

\* The body of the callback.  f: the outcome of the download and the check;
\* dbOk: the update to 'processing_video' goes through; schedOk: apply_async
\* goes through; n: the length of the text of an exception of the environment.
VideoCallbackBody(image_result, parent, recs, st, f, dbOk, schedOk, n) ==
    LET me   == "continue_with_video_generation"
        key  == StateKey(parent)
        data == st[key].value
        id   == data.video_generation_id
        url  == Get(image_result, "edited_image_url", << >>)
        \* the handler `except Exception` of the callback
        caught(e, recs1, evs) ==
            [records |-> Update(recs1, id, [status |-> "failed",
                                            error_message |-> CallbackError(e)]),
             send |-> {}, events |-> evs \o <<Ev("write", "failed", me)>>,
             out |-> Raised(e)]
        err(m) == Exc("CeleryTaskError", m)
    IN  IF key \notin DOMAIN st THEN
            [records |-> recs, send |-> {},
             events |-> <<Ev("state_missing", parent, me)>>,
             out |-> Raised(err(Text("Could not retrieve original data from backend",
                                     67)))]
        ELSE IF Get(image_result, "status", None) = "error" THEN
            [records |-> Update(recs, id,
                            [status |-> "failed",
                             error_message |->
                                Prefix("Image Editing Error", 21,
                                       Slice(Get(image_result, "message",
                                                 Text("Image editing failed.", 21)),
                                             250))]),
             send |-> {}, events |-> <<Ev("write", "failed", me)>>,
             out |-> Returned([status |-> "error"])]
        ELSE IF url = << >> THEN
            caught(err(Text("Edited image URL not found in image_result", 48)),
                   recs, << >>)
        ELSE IF f = "get_failed" THEN
            caught(err(Prefix("Failed to download edited image", 45 + Len(url),
                              Text("network", n))), recs, << >>)
        ELSE IF f = "head_not_200" THEN
            caught(err(Prefix("Failed to upload edited image", 43,
                              Str(err(Text("OpenAI image is not accessible", 42))))),
                   recs, << >>)
        ELSE IF ~dbOk THEN
            caught(Exc("DatabaseError", Text("db", n)), recs,
                   <<Ev("write_failed", "processing_video", me)>>)
        ELSE IF ~schedOk THEN
            caught(Exc("OperationalError", Text("broker", n)),
                   Update(recs, id, [status |-> "processing_video"]),
                   <<Ev("write", "processing_video", me),
                     Ev("sched_failed", "generate_product_video", me)>>)
        ELSE
            [records |-> Update(recs, id, [status |-> "processing_video"]),
             send |-> {Task("generate_product_video",
                            VideoData(data, image_result, url, id, parent),
                            parent, << >>)},
             events |-> <<Ev("write", "processing_video", me),
                          Ev("sched", "generate_product_video", me)>>,
             out |-> Returned([status |-> "SUCCESS"])]

ContinueWithVideoGeneration ==
    \E t \in queue : \E f \in FetchOutcomes, dbOk, schedOk \in BOOLEAN, n \in ErrLens :
        /\ t.name = "continue_with_video_generation"
        /\ Continuation(t.name,
                        VideoCallbackBody(t.arg, t.parent, records, store,
                                          f, dbOk, schedOk, n), t)

----------------------------------------------------------------------------
(* VideoGenStage: generate_product_video and FalService.generate_svd_video. *)

\* max_polls
MaxPolls == 45

MockUrl  == "mock.mp4"
VideoUrl == "video.mp4"

\* FalServiceError raised inside the service's try block: `except Exception`
\* wraps its text once more
FalError(m) ==
    Exc("FalServiceError",
        Prefix("Unexpected error during Fal AI video generation", 49, m))

\* the submission of the job and the check of the image URL that follows it:
\* no API key is configured (a mock URL is returned at once), the job is
\* accepted, the POST fails, the answer has no request_id, or the image URL
\* is answered with a status other than 200
SubmitOutcomes == {"no_api_key", "ok", "request_error", "no_request_id",
                   "image_unreachable"}

\* MEDIA_URL_EXTERNAL, the address put before a relative image URL
MediaUrlExternal == <<"h", ":">>

\* image_url.startswith('/'): a relative URL is made absolute
AbsoluteUrl(image_url) ==
    IF Len(image_url) > 0 /\ image_url[1] = "/"
    THEN MediaUrlExternal \o image_url
    ELSE image_url

\* the prompt of every job: a literal of the service
TurntablePrompt == "Product rotating on a clean white background"

\* the payload of the POST that submits the job
FalPayload(image_url, duration) ==
    [image_url |-> AbsoluteUrl(image_url), prompt |-> TurntablePrompt,
     duration |-> duration, aspect_ratio |-> "1:1"]

\* generate_svd_video up to its poll loop
FalSubmit(o, image_url, n) ==
    CASE o = "no_api_key" ->
            [FalIdle EXCEPT !.phase = "done", !.url = MockUrl]
      [] o = "ok" ->
            [FalIdle EXCEPT !.phase = "polling"]
      [] o = "request_error" ->
            [FalIdle EXCEPT !.phase = "failed",
                !.err = Prefix("Fal AI API request failed", 27, Text("network", n))]
      [] o = "no_request_id" ->
            [FalIdle EXCEPT !.phase = "failed",
                !.err = FalError(Text("No request_id in Fal AI response", 32)).msg]
      [] OTHER ->
            [FalIdle EXCEPT !.phase = "failed",
                !.err = FalError(Text("Image URL is not publicly accessible",
                                      38 + Len(image_url))).msg]

\* what one status poll can come to: the status the collaborator reports, a
\* body without a status, a body that is not JSON, or a RequestException
\* (the GET failing, or raise_for_status on a body that ended nothing)
PollOutcomes == {"COMPLETED", "COMPLETED_NO_URL", "FAILED", "ERROR", "CANCELLED",
                 "IN_PROGRESS", "no_status", "bad_json", "request_error"}

\* status_data['status'] of a poll, None for a poll that reports no status
StatusValue(o) ==
    IF o \in {"COMPLETED", "FAILED", "ERROR", "CANCELLED", "IN_PROGRESS"} THEN o
    ELSE IF o = "COMPLETED_NO_URL" THEN "COMPLETED"
    ELSE None

\* the call after a poll has been answered with o
Polled(f, o) ==
    [f EXCEPT !.status = StatusValue(o), !.neterr = @ \/ o = "request_error"]

\* a variant in which the RequestException of a poll is raised at once
FalPollAbortOnError(f, o, n) ==
    LET g == Polled(f, o)
        failed(m) == [g EXCEPT !.phase = "failed", !.err = m] IN
    IF o = "COMPLETED" THEN [g EXCEPT !.phase = "completed", !.url = VideoUrl]
    ELSE IF o = "COMPLETED_NO_URL" THEN [g EXCEPT !.phase = "completed"]
    ELSE IF o \in {"FAILED", "ERROR"} THEN
        failed(FalError(Prefix("Fal AI job failed", 35, Text("logs", n))).msg)
    ELSE IF o = "request_error" THEN
        failed(FalError(Prefix("Failed to get Fal AI status", 47,
                               Text("network", n))).msg)
    ELSE IF f.attempt + 1 = MaxPolls THEN
        [failed(FalError(Text("Fal AI job did not complete", 46)).msg)
            EXCEPT !.attempt = MaxPolls]
    ELSE [g EXCEPT !.attempt = @ + 1]

\* a variant that, the loop exhausted, goes on to fetch the result without
\* looking at completion_status
FalPollNoTimeout(f, o, n) ==
    LET g == Polled(f, o)
        failed(m) == [g EXCEPT !.phase = "failed", !.err = m] IN
    IF o = "COMPLETED" THEN [g EXCEPT !.phase = "completed", !.url = VideoUrl]
    ELSE IF o = "COMPLETED_NO_URL" THEN [g EXCEPT !.phase = "completed"]
    ELSE IF o \in {"FAILED", "ERROR"} THEN
        failed(FalError(Prefix("Fal AI job failed", 35, Text("logs", n))).msg)
    ELSE IF o = "request_error" /\ f.attempt = MaxPolls - 1 THEN
        failed(FalError(Prefix("Failed to get Fal AI status", 47,
                               Text("network", n))).msg)
    ELSE IF f.attempt + 1 = MaxPolls THEN
        [g EXCEPT !.phase = "completed", !.attempt = MaxPolls]
    ELSE [g EXCEPT !.attempt = @ + 1]

\* one turn of `for attempt in range(max_polls)`, and what follows the loop
\* when it was the last turn
FalPoll(f, o, n) ==
    LET g == Polled(f, o)
        failed(m) == [g EXCEPT !.phase = "failed", !.err = m] IN
    IF o = "COMPLETED" THEN [g EXCEPT !.phase = "completed", !.url = VideoUrl]
    ELSE IF o = "COMPLETED_NO_URL" THEN [g EXCEPT !.phase = "completed"]
    ELSE IF o \in {"FAILED", "ERROR"} THEN
        failed(FalError(Prefix("Fal AI job failed", 35, Text("logs", n))).msg)
    ELSE IF o = "request_error" /\ f.attempt = MaxPolls - 1 THEN
        failed(FalError(Prefix("Failed to get Fal AI status", 47,
                               Text("network", n))).msg)
    ELSE IF f.attempt + 1 = MaxPolls THEN
        [failed(FalError(Text("Fal AI job did not complete", 46)).msg)
            EXCEPT !.attempt = MaxPolls]
    ELSE [g EXCEPT !.attempt = @ + 1]

\* the download of the result once the job is completed
ResultOutcomes == {"ok", "http_error", "bad_structure"}

\* generate_svd_video after its poll loop: <<"ok", url>> or <<"error", message>>
FalResult(f, o, n) ==
    IF f.phase = "done" THEN <<"ok", f.url>>
    ELSE IF f.phase = "failed" THEN <<"error", f.err>>
    ELSE IF f.url = None
    THEN <<"error", FalError(Text("No response_url found", 47)).msg>>
    ELSE IF o = "ok" THEN <<"ok", f.url>>
    ELSE IF o = "http_error"
    THEN <<"error", FalError(Prefix("Failed to fetch Fal AI video result", 48,
                                    Text("http", n))).msg>>
    ELSE <<"error", FalError(Text("Unexpected result structure from Fal AI", 63)).msg>>

VideoRequired == {"edited_image_url", "prompt", "email", "product_title"}

\* generate_product_video before the call of the service: the message of the
\* CeleryTaskError it raises, or NoError
VideoRejects(data) ==
    IF "video_generation_id" \notin DOMAIN data \/ Falsy(data, "video_generation_id")
    THEN Text("video_generation_id missing", 65)
    ELSE IF MissingFields(data, VideoRequired) # {}
    THEN Text("Missing required fields for video generation", 51)
    ELSE NoError

\* a worker takes the message; the stage checks its input and either ends
\* there or goes on to the service
VideoStart ==
    \E t \in queue :
        /\ t.name = "generate_product_video"
        /\ LET me == "generate_product_video"
               m  == VideoRejects(t.arg)
               id == Get(t.arg, "video_generation_id", None)
               w  == TaskErrorHandler(Raised(Exc("CeleryTaskError", m)), 0, 1, "video")
           IN  IF m = NoError THEN
                   /\ running' = running \cup {t}
                   /\ log' = Logged(log, <<Ev("start", me, me)>>)
                   /\ UNCHANGED <<records, results>>
               ELSE
                   /\ records' = IF m.tag = "video_generation_id missing" THEN records
                                 ELSE Update(records, id,
                                             [status |-> "failed",
                                              error_message |-> Slice(m, 255)])
                   /\ results' = (me :> w) @@ results
                   /\ log' = Logged(log, <<Ev("start", me, me)>>
                                 \o (IF m.tag = "video_generation_id missing" THEN << >>
                                     ELSE <<Ev("write", "failed", me)>>)
                                 \o <<Ev("return", me, me)>>)
                   /\ UNCHANGED running
        /\ queue' = queue \ {t}
        /\ fal' = FalIdle
        /\ UNCHANGED <<request, prompts, store, calls>>

VideoSubmit ==
    \E t \in running : \E o \in SubmitOutcomes, n \in ErrLens :
        /\ t.name = "generate_product_video"
        /\ fal.phase = "idle"
        /\ fal' = [FalSubmit(o, t.arg.edited_image_url, n) EXCEPT
                      !.payload =
                          IF o = "no_api_key" THEN << >>
                          ELSE <<FalPayload(t.arg.edited_image_url,
                                            Get(t.arg, "video_duration", "5"))>>]
        /\ calls' = [calls EXCEPT !.submit = @ + (IF o = "no_api_key" THEN 0 ELSE 1)]
        /\ log' = Logged(log, IF o = "no_api_key" THEN << >>
                              ELSE <<Ev("call", "video", "generate_product_video")>>)
        /\ UNCHANGED <<request, queue, running, records, prompts, store, results>>

VideoPoll ==
    \E t \in running : \E o \in PollOutcomes, n \in ErrLens :
        /\ t.name = "generate_product_video"
        /\ fal.phase = "polling"
        /\ fal' = FalPoll(fal, o, n)
        /\ UNCHANGED <<request, queue, running, records, prompts, store, results, calls, log>>

\* f"Fal AI Error: {str(e)[:200]}"
FalFailure(m) == Prefix("Fal AI Error", 14, Slice(m, 200))

\* f"Unexpected Error: {str(e)[:200]}"
UnexpectedFailure(m) == Prefix("Unexpected Error", 18, Slice(m, 200))

\* a variant in which the failure to trigger the notifier is not contained
\* and reaches the handler `except Exception` of the stage
VideoCompletedUnguarded(data, recs, url, notifyOk) ==
    LET me == "generate_product_video"
        id == data.video_generation_id
        done == Update(recs, id, [status |-> "completed", output_video_url |-> url,
                                  error_message |-> NoError])
    IN  IF Falsy(data, "email") \/ notifyOk THEN
            [records |-> done,
             send |-> IF Falsy(data, "email") THEN {}
                      ELSE {Task("send_video_ready_email", id, None, << >>)},
             events |-> <<Ev("write", "completed", me)>> \o
                        (IF Falsy(data, "email") THEN << >>
                         ELSE <<Ev("sched", "send_video_ready_email", me)>>),
             out |-> Returned([status |-> "success", video_url |-> url,
                               video_generation_id |-> id])]
        ELSE
            [records |-> Update(done, id,
                            [status |-> "failed",
                             error_message |->
                                UnexpectedFailure(Text("broker", ShortErr))]),
             send |-> {},
             events |-> <<Ev("write", "completed", me),
                          Ev("sched_failed", "send_video_ready_email", me),
                          Ev("write", "failed", me)>>,
             out |-> Raised(Exc("OperationalError", Text("broker", ShortErr)))]

\* a variant that marks the run completed without saving the URL
VideoCompletedNoUrl(data, recs, url, notifyOk) ==
    LET me == "generate_product_video"
        id == data.video_generation_id
    IN  [records |-> Update(recs, id, [status |-> "completed",
                                       error_message |-> NoError]),
         send |-> IF ~Falsy(data, "email") /\ notifyOk
                  THEN {Task("send_video_ready_email", id, None, << >>)}
                  ELSE {},
         events |-> <<Ev("write", "completed", me)>> \o
                    (IF Falsy(data, "email") THEN << >>
                     ELSE IF notifyOk
                     THEN <<Ev("sched", "send_video_ready_email", me)>>
                     ELSE <<Ev("sched_failed", "send_video_ready_email", me)>>),
         out |-> Returned([status |-> "success", video_url |-> url,
                           video_generation_id |-> id])]

\* generate_product_video once the service has returned the URL and the
\* update to 'completed' has gone through: the notifier is triggered inside a
\* try block of its own, and the result is returned
VideoCompleted(data, recs, url, notifyOk) ==
    LET me == "generate_product_video"
        id == data.video_generation_id
    IN  [records |-> Update(recs, id, [status |-> "completed",
                                       output_video_url |-> url,
                                       error_message |-> NoError]),
         send |-> IF ~Falsy(data, "email") /\ notifyOk
                  THEN {Task("send_video_ready_email", id, None, << >>)}
                  ELSE {},
         events |-> <<Ev("write", "completed", me)>> \o
                    (IF Falsy(data, "email") THEN << >>
                     ELSE IF notifyOk
                     THEN <<Ev("sched", "send_video_ready_email", me)>>
                     ELSE <<Ev("sched_failed", "send_video_ready_email", me)>>),
         out |-> Returned([status |-> "success", video_url |-> url,
                           video_generation_id |-> id])]

\* generate_product_video from the return of the service to its own return.
\* r: what the service came to; dbOk: the update to 'completed' goes through;
\* notifyOk: send_video_ready_email_task.delay goes through.
VideoFinishBody(data, recs, r, dbOk, notifyOk, n) ==
    LET me == "generate_product_video"
        id == data.video_generation_id
    IN  IF r[1] = "error" THEN
            [records |-> Update(recs, id, [status |-> "failed",
                                           error_message |-> FalFailure(r[2])]),
             send |-> {}, events |-> <<Ev("write", "failed", me)>>,
             out |-> Raised(Exc("FalServiceError", r[2]))]
        ELSE IF ~dbOk THEN
            [records |-> Update(recs, id,
                            [status |-> "failed",
                             error_message |-> UnexpectedFailure(Text("db", n))]),
             send |-> {},
             events |-> <<Ev("write_failed", "completed", me),
                          Ev("write", "failed", me)>>,
             out |-> Raised(Exc("DatabaseError", Text("db", n)))]
        ELSE VideoCompleted(data, recs, r[2], notifyOk)

\* the service has failed already: nothing of the environment is consulted
\* any more (the choices below are then fixed, as they decide nothing)
VideoFinish ==
    \E t \in running :
    \E o \in IF fal.phase = "completed" /\ fal.url # None THEN ResultOutcomes ELSE {"ok"},
       dbOk \in IF fal.phase = "failed" THEN {TRUE} ELSE BOOLEAN,
       notifyOk \in IF fal.phase = "failed" THEN {TRUE} ELSE BOOLEAN,
       n \in IF fal.phase = "failed" THEN {ShortErr} ELSE ErrLens :
        /\ t.name = "generate_product_video"
        /\ fal.phase \in {"done", "completed", "failed"}
        /\ LET me == "generate_product_video"
               r  == VideoFinishBody(t.arg, records, FalResult(fal, o, n),
                                     dbOk, notifyOk, n)
               w  == TaskErrorHandler(r.out, 0, 1, "video")
           IN  /\ records' = r.records
               /\ queue' = queue \cup r.send
               /\ results' = (me :> w) @@ results
               /\ log' = Logged(log, r.events \o <<Ev("return", me, me)>>)
        /\ running' = running \ {t}
        /\ fal' = [FalIdle EXCEPT !.phase = "returned", !.status = fal.status,
                                  !.neterr = fal.neterr, !.payload = fal.payload]
        /\ UNCHANGED <<request, prompts, store, calls>>

----------------------------------------------------------------------------
(* Notifier: send_video_ready_email_task.                                  *)

\* msg.send(): the mail goes out, or SMTPException
MailOutcomes == {"ok", "smtp_error"}

\* a variant that does not look at the status of the row
NotifierBodyAnyStatus(id, recs, o, n) ==
    IF id \notin DOMAIN recs THEN
        [out |-> Raised(Exc("CeleryTaskError",
                            Text("Video generation record not found", 36))),
         sent |-> FALSE]
    ELSE IF recs[id].email = "" THEN
        [out |-> Returned([status |-> "SKIPPED", message |-> "No email address provided."]),
         sent |-> FALSE]
    ELSE IF recs[id].output_video_url \in {"", None} THEN
        [out |-> Returned([status |-> "SKIPPED", message |-> "Output video URL missing."]),
         sent |-> FALSE]
    ELSE IF o = "ok" THEN
        [out |-> Returned([status |-> "success", task_id |-> "notify"]), sent |-> TRUE]
    ELSE
        [out |-> Raised(Exc("CeleryTaskError",
                            Prefix("SMTP error sending email", 35, Text("smtp", n)))),
         sent |-> FALSE]

\* The body of the task: [out, sent]
NotifierBody(id, recs, o, n) ==
    IF id \notin DOMAIN recs THEN
        [out |-> Raised(Exc("CeleryTaskError",
                            Text("Video generation record not found", 36))),
         sent |-> FALSE]
    ELSE IF recs[id].email = "" THEN
        [out |-> Returned([status |-> "SKIPPED", message |-> "No email address provided."]),
         sent |-> FALSE]
    ELSE IF recs[id].status # "completed" THEN
        [out |-> Returned([status |-> "SKIPPED",
                           message |-> "Video not in completed state."]),
         sent |-> FALSE]
    ELSE IF recs[id].output_video_url \in {"", None} THEN
        [out |-> Returned([status |-> "SKIPPED", message |-> "Output video URL missing."]),
         sent |-> FALSE]
    ELSE IF o = "ok" THEN
        [out |-> Returned([status |-> "success", task_id |-> "notify"]), sent |-> TRUE]
    ELSE
        [out |-> Raised(Exc("CeleryTaskError",
                            Prefix("SMTP error sending email", 35, Text("smtp", n)))),
         sent |-> FALSE]

\* a variant in which the message of the task is not acknowledged and stays
\* in the broker
NotifierKeepsMessage ==
    \E t \in queue : \E o \in MailOutcomes, n \in ErrLens :
        /\ t.name = "send_video_ready_email"
        /\ LET me == "send_video_ready_email"
               r  == NotifierBody(t.arg, records, o, n)
               w  == TaskErrorHandler(r.out, 0, 3, "notify")
           IN  /\ calls' = [calls EXCEPT !.mail = @ + (IF r.sent THEN 1 ELSE 0)]
               /\ results' = (me :> w) @@ results
               /\ log' = Logged(log, <<Ev("start", me, me)>> \o
                                     (IF r.sent THEN <<Ev("call", "mail", me)>>
                                      ELSE << >>) \o <<Ev("return", me, me)>>)
        /\ UNCHANGED <<request, queue, running, records, prompts, store, fal>>

\* a variant that marks the run failed when the task ends in an exception
NotifierMarksFailure ==
    \E t \in queue : \E o \in MailOutcomes, n \in ErrLens :
        /\ t.name = "send_video_ready_email"
        /\ LET me == "send_video_ready_email"
               r  == NotifierBody(t.arg, records, o, n)
               w  == TaskErrorHandler(r.out, 0, 3, "notify")
           IN  /\ calls' = [calls EXCEPT !.mail = @ + (IF r.sent THEN 1 ELSE 0)]
               /\ results' = (me :> w) @@ results
               /\ records' = IF r.out.kind = "raise"
                             THEN Update(records, t.arg,
                                         [status |-> "failed",
                                          error_message |-> Str(r.out.exc)])
                             ELSE records
               /\ log' = Logged(log, <<Ev("start", me, me)>> \o
                                     (IF r.sent THEN <<Ev("call", "mail", me)>>
                                      ELSE << >>) \o <<Ev("return", me, me)>>)
        /\ queue' = queue \ {t}
        /\ UNCHANGED <<request, running, prompts, store, fal>>

Notifier ==
    \E t \in queue : \E o \in MailOutcomes, n \in ErrLens :
        /\ t.name = "send_video_ready_email"
        /\ LET me == "send_video_ready_email"
               r  == NotifierBody(t.arg, records, o, n)
               w  == TaskErrorHandler(r.out, 0, 3, "notify")
           IN  /\ calls' = [calls EXCEPT !.mail = @ + (IF r.sent THEN 1 ELSE 0)]
               /\ results' = (me :> w) @@ results
               /\ log' = Logged(log, <<Ev("start", me, me)>> \o
                                     (IF r.sent THEN <<Ev("call", "mail", me)>>
                                      ELSE << >>) \o <<Ev("return", me, me)>>)
        /\ queue' = queue \ {t}
        /\ UNCHANGED <<request, running, records, prompts, store, fal>>

Next ==
    \/ Dispatch
    \/ Orchestrator
    \/ PromptStart
    \/ PromptFinish
    \/ Expire
    \/ ContinueWithImageEdit
    \/ EditStart
    \/ EditFinish
    \/ ContinueWithVideoGeneration
    \/ VideoStart
    \/ VideoSubmit
    \/ VideoPoll
    \/ VideoFinish
    \/ Notifier

Spec == Init /\ [][Next]_vars

----------------------------------------------------------------------------
(* The wrapper on its own: one task decorated with                         *)
(* task_error_handler(max_retries=N), run by a worker, with a body that    *)
(* may end in any way at each execution.  The message of the task waits in *)
(* `queue` with the retries it has behind it, `request` holds N, `results` *)
(* holds how the body and the wrapper ended at the last execution and      *)
(* `calls.body` counts the executions.                                     *)

\* the max_retries given to the decorator in tasks.py
Ceilings == {1, 2, 3}

WrappedTask == "task"

\* the exceptions a body is tried with: some that retry_for matches (by their
\* class or a base class), some it does not, and Retry
TransientClasses == {"RequestException", "Timeout", "HTTPError", "TimeoutError",
                     "ConnectionError"}
FatalClasses == {"ValueError", "CeleryTaskError"}

\* how one execution of the body can end
BodyOutcomes ==
    {Returned([status |-> "success"]), Returned([status |-> "failed"])}
    \cup {Raised(Exc(c, Text("transient", ShortErr))) : c \in TransientClasses}
    \cup {Raised(Exc(c, Text("fatal", n))) : c \in FatalClasses, n \in ErrLens}
    \cup {Raised(Exc("Retry", Text("retry", ShortErr)))}

WrapperInit ==
    /\ \E N \in Ceilings : request = [max_retries |-> N]
    /\ queue = {[name |-> WrappedTask, retries |-> 0]}
    /\ running = {}
    /\ records = << >>
    /\ prompts = << >>
    /\ store = << >>
    /\ results = << >>
    /\ fal = FalIdle
    /\ calls = [body |-> 0]
    /\ log = << >>

\* the worker takes the message and calls wrapper(task_self, ...) with
\* task_self.request.retries as the message carries it
WrapperStart ==
    \E t \in queue :
        /\ queue' = queue \ {t}
        /\ running' = {t}
        /\ calls' = [calls EXCEPT !.body = @ + 1]
        /\ log' = Logged(log, <<Ev("start", WrappedTask, WrappedTask)>>)
        /\ UNCHANGED <<request, records, prompts, store, results, fal>>

\* the body ends and the wrapper answers: a value is the result of the task;
\* Retry, raised by task_self.retry or by the body, has sent the message
\* again with one retry more (a body can raise Retry only by a call of
\* retry, which the queue answers with Retry while retries are left)
WrapperFinish ==
    \E t \in running : \E out \in BodyOutcomes :
        /\ out.kind = "raise" /\ out.exc.cls = "Retry" =>
               t.retries < request.max_retries
        /\ LET w == TaskErrorHandler(out, t.retries, request.max_retries,
                                     WrappedTask)
           IN  /\ results' = [body |-> out, task |-> w]
               /\ queue' = IF w.kind = "return" THEN {}
                           ELSE {[t EXCEPT !.retries = @ + 1]}
               /\ log' = Logged(log,
                     <<Ev("body",
                          IF out.kind = "raise" THEN out.exc.cls ELSE "value",
                          WrappedTask),
                       Ev(IF w.kind = "return" THEN "return" ELSE "retry",
                          WrappedTask, WrappedTask)>>)
        /\ running' = {}
        /\ UNCHANGED <<request, records, prompts, store, fal, calls>>

WrapperNext == WrapperStart \/ WrapperFinish

WrapperSpec == WrapperInit /\ [][WrapperNext]_vars

----------------------------------------------------------------------------
(* One row of VideoGeneration on its own, in any state the table can hold, *)
(* with the two tasks that act on a row they are given the id of: the      *)
(* notifier, whose message is in the broker from the start and is sent     *)
(* again by every completion, and the completion of generate_product_video *)
(* (the update to 'completed' and what follows it), applied up to twice.   *)

RunId == "1"

\* the values the column status is given anywhere in tasks.py
StatusValues == {"pending", "processing", "processing_video", "completed", "failed"}

\* a row as the orchestrator creates it, with every status, with and
\* without an address, an output (the column may be NULL or blank) and an
\* error message
RunRows ==
    { [NewRow(BaseInput, OrchTaskId) EXCEPT
          !.email = e, !.status = st, !.output_video_url = u, !.error_message = m] :
        e \in {"", "a@b.com"}, st \in StatusValues, u \in {None, "", VideoUrl},
        m \in {NoError, Text("earlier", ShortErr)} }

NotifierMessage == Task("send_video_ready_email", RunId, None, << >>)

RecordInit ==
    /\ request = << >>
    /\ queue = {NotifierMessage}
    /\ running = {}
    /\ records \in {<< >>} \cup {(RunId :> r) : r \in RunRows}
    /\ prompts = << >>
    /\ store = << >>
    /\ results = << >>
    /\ fal = FalIdle
    /\ calls = [prompt |-> 0, edit |-> 0, submit |-> 0, mail |-> 0]
    /\ log = << >>

\* the completions applied so far
Completions == Len(SelectSeq(log, LAMBDA e : e = Ev("write", "completed",
                                                   "generate_product_video")))

\* generate_product_video from the update to 'completed' on, for the row
\* RunId and the URL the service returned
MarkCompleted ==
    \E url \in {MockUrl, VideoUrl}, notifyOk \in BOOLEAN :
        /\ Completions < 2
        /\ RunId \in DOMAIN records
        /\ LET data == [video_generation_id |-> RunId, email |-> records[RunId].email]
               r == VideoCompleted(data, records, url, notifyOk)
           IN  /\ records' = r.records
               /\ queue' = queue \cup r.send
               /\ log' = Logged(log, r.events \o
                                     <<Ev("output", url, "generate_product_video")>>)
        /\ UNCHANGED <<request, running, prompts, store, results, fal, calls>>

RecordNext == Notifier \/ MarkCompleted

RecordSpec == RecordInit /\ [][RecordNext]_vars

----------------------------------------------------------------------------
(* One run under at-least-once delivery: the broker delivers the message   *)
(* of the second continuation once more, after the run has come to its     *)
(* end.  The run is the one of BaseInput, dispatched already.              *)

RedeliveryInit ==
    /\ request = BaseInput
    /\ queue = {Task("orchestrator", BaseInput, OrchTaskId, << >>)}
    /\ running = {}
    /\ records = << >>
    /\ prompts = << >>
    /\ store = << >>
    /\ results = << >>
    /\ fal = FalIdle
    /\ calls = [prompt |-> 0, edit |-> 0, submit |-> 0, mail |-> 0]
    /\ log = <<Ev("dispatch", "orchestrator", "view")>>

\* the message edit_product_image left for its link, delivered a second time
Redeliver ==
    /\ \E id \in DOMAIN records : records[id].status \in {"completed", "failed"}
    /\ "continue_with_video_generation" \in DOMAIN results
    /\ "edit_product_image" \in DOMAIN results
    /\ results["edit_product_image"].kind = "return"
    /\ queue = {} /\ running = {}
    /\ \A i \in DOMAIN log : log[i][1] # "redeliver"
    /\ queue' = queue \cup {Task("continue_with_video_generation",
                                 results["edit_product_image"].value,
                                 OrchTaskId, << >>)}
    /\ log' = Logged(log, <<Ev("redeliver", "continue_with_video_generation",
                               "broker")>>)
    /\ UNCHANGED <<request, running, records, prompts, store, results, fal, calls>>

RedeliveryNext ==
    \/ Orchestrator
    \/ PromptStart
    \/ PromptFinish
    \/ Expire
    \/ ContinueWithImageEdit
    \/ EditStart
    \/ EditFinish
    \/ ContinueWithVideoGeneration
    \/ VideoStart
    \/ VideoSubmit
    \/ VideoPoll
    \/ VideoFinish
    \/ Notifier
    \/ Redeliver

RedeliverySpec == RedeliveryInit /\ [][RedeliveryNext]_vars

----------------------------------------------------------------------------
(* Properties.                                                             *)

\* the events of a kind, in order
EventsOf(kind) == SelectSeq(log, LAMBDA e : e[1] = kind)

\* the statuses written to the run record, in order
Writes == [i \in DOMAIN EventsOf("write") |-> EventsOf("write")[i][2]]

\* the position of a status in the life of a run; both terminal statuses
\* stand last
Rank(status) ==
    CASE status = "pending" -> 0
      [] status = "processing" -> 1
      [] status = "processing_video" -> 2
      [] OTHER -> 3

\* C1: the status of a run only moves forward.  Every status written to the
\* record stands strictly later in pending < processing < processing_video <
\* completed | failed than the status it replaces, so no status is left for
\* an earlier one, nothing is written once the run is completed or failed,
\* and the record holds the last status written.
C1_StatusForward ==
    /\ \A i \in DOMAIN Writes :
          Rank(IF i = 1 THEN "pending" ELSE Writes[i - 1]) < Rank(Writes[i])
    /\ \A id \in DOMAIN records :
          records[id].status = IF Writes = << >> THEN "pending"
                               ELSE Writes[Len(Writes)]

\* a run that went through every status up to completed
C1_Witness ==
    /\ Writes = <<"processing", "processing_video", "completed">>
    /\ \E id \in DOMAIN records : records[id].status = "completed"

\* an event <<kind, what, by>> is in the log
Did(kind, what, by) == \E i \in DOMAIN log : log[i] = Ev(kind, what, by)

\* a task has run to its return or its exception
Ended(task) == Did("return", task, task) \/ Did("raise", task, task)

\* the outcomes of the continuation after PromptStage that have happened
Cont1Outcomes ==
    LET me == "continue_with_image_edit" IN
    {o \in {"edit_product_image", "generate_product_video", "failed"} :
        IF o = "failed" THEN Did("write", "failed", me) ELSE Did("sched", o, me)}

\* C2: every execution of the continuation after PromptStage ends with
\* exactly one of: ImageEditStage scheduled, VideoGenStage scheduled, the run
\* marked failed.
C2_ExactlyOneOutcome ==
    Ended("continue_with_image_edit") => Cardinality(Cont1Outcomes) = 1

\* C3: once a continuation has found the entry of the run missing from the
\* state store, the run is failed, with an error that names the missing
\* state, and no stage is scheduled after that.
C3_StateMissingFailsRun ==
    \A i \in DOMAIN log :
        log[i][1] = "state_missing" =>
            /\ \A id \in DOMAIN records :
                  /\ records[id].status = "failed"
                  /\ records[id].error_message.cause \in
                        {"Original data missing from backend state",
                         "Could not retrieve original data from backend"}
            /\ \A j \in DOMAIN log : j > i => log[j][1] # "sched"

\* the orchestrator has just returned: nothing has happened since
OrchestratorJustEnded ==
    log # << >> /\ log[Len(log)] = Ev("return", "orchestrator", "orchestrator")

C5_StoreFailureFailsRun ==
    Did("setex_failed", OrchTaskId, "orchestrator") =>
        /\ DOMAIN records = {"1"}
        /\ records["1"].status = "failed"
        /\ records["1"].error_message.tag = "Backend Error"
        /\ records["1"].error_message.cause = "redis"
        /\ store = << >>
        /\ queue = {} /\ running = {}
        /\ EventsOf("sched") = << >>
        /\ EventsOf("start") = << >>

\* the write to the store has failed for a record that had been created
C5_Witness ==
    /\ Did("create", "1", "orchestrator")
    /\ Did("setex_failed", OrchTaskId, "orchestrator")

\* the position of the first event of a kind in the log, 0 when there is none
First(kind) ==
    IF \E i \in DOMAIN log : log[i][1] = kind
    THEN CHOOSE i \in DOMAIN log :
            log[i][1] = kind /\ \A j \in 1..(i - 1) : log[j][1] # kind
    ELSE 0

\* C6: a stage is scheduled only after the record of the run was inserted
\* and, after that, its entry was written to the state store; and when the
\* insert fails, the orchestrator writes no entry and schedules nothing.
C6_PersistBeforeSchedule ==
    /\ First("sched") # 0 =>
          /\ 0 < First("create")
          /\ First("create") < First("setex")
          /\ First("setex") < First("sched")
          /\ DOMAIN records # {}
    /\ First("create_failed") # 0 =>
          /\ records = << >> /\ store = << >>
          /\ queue = {} /\ running = {}
          /\ First("setex") = 0 /\ First("sched") = 0

\* a stage after PromptStage has been scheduled
C6_Witness == Did("sched", "edit_product_image", "continue_with_image_edit")

Cont1 == "continue_with_image_edit"

\* the continuation after PromptStage has run and found the entry of the run
Cont1RanWithState == Ended(Cont1) /\ ~Did("state_missing", OrchTaskId, Cont1)

\* PromptStage has returned a result that is not a success
PromptFailed ==
    /\ "generate_prompt" \in DOMAIN results
    /\ results["generate_prompt"].value.status # "success"

\* C7: when the result of PromptStage is not a success, the continuation
\* that has loaded the state of the run marks the run failed with the error
\* of the prompt, in full, behind "Prompt generation failed: "; and neither
\* ImageEditStage nor VideoGenStage is ever scheduled or started, nor is
\* their collaborator called.
C7_PromptFailureStopsRun ==
    PromptFailed =>
        /\ Cont1RanWithState =>
              \A id \in DOMAIN records :
                  /\ records[id].status = "failed"
                  /\ records[id].error_message.tag = "Prompt generation failed"
                  /\ records[id].error_message.cause =
                        results["generate_prompt"].value.error.cause
                  /\ records[id].error_message.len =
                        26 + results["generate_prompt"].value.error.len
        /\ \A i \in DOMAIN log :
              log[i][2] \notin {"edit_product_image", "generate_product_video",
                                "send_video_ready_email"}
        /\ calls.edit = 0 /\ calls.submit = 0 /\ calls.mail = 0
        /\ Ended(Cont1) => queue = {} /\ running = {}

\* the continuation has dealt with a failed prompt
C7_Witness ==
    /\ PromptFailed
    /\ Cont1RanWithState
    /\ \E id \in DOMAIN records : records[id].status = "failed"

\* the run asks to skip the image edit
SkipRun == "skip_image_editing" \in DOMAIN request /\ request.skip_image_editing

\* C8: for a run with the skip flag and a .png, .jpg, .jpeg or .webp image
\* (in either case of letters), the continuation after a successful
\* PromptStage that loads the state, writes the status and reaches the broker
\* schedules VideoGenStage with the original image as the image to animate;
\* and ImageEditStage is never scheduled nor its collaborator called.
C8_SkipGoesToVideo ==
    (SkipRun /\ request.file_url \in {Png, PngU, Jpg, Jpeg, Webp}) =>
        /\ calls.edit = 0
        /\ \A i \in DOMAIN log : log[i][2] # "edit_product_image"
        /\ \A t \in queue \cup running :
              t.name = "generate_product_video" =>
                  /\ t.arg.edited_image_url = request.file_url
                  /\ t.arg.video_generation_id = "1"
        /\ ( /\ Cont1RanWithState
             /\ ~PromptFailed
             /\ EventsOf("write_failed") = << >>
             /\ EventsOf("sched_failed") = << >> )
           => /\ Did("sched", "generate_product_video", Cont1)
              /\ log[Len(log)] = Ev("return", Cont1, Cont1) =>
                    \E t \in queue : t.name = "generate_product_video"

\* the continuation has sent a skip run on to VideoGenStage
C8_Witness ==
    /\ SkipRun
    /\ request.file_url = PngU
    /\ log[Len(log)] = Ev("return", Cont1, Cont1)
    /\ \E t \in queue : t.name = "generate_product_video"

\* C9: for a run with the skip flag and a .pdf source, the run is failed
\* once the continuation after PromptStage has run, and no collaborator, the
\* prompt generator included, is called at any point.
C9_UnsupportedSkipCallsNothing ==
    (SkipRun /\ request.file_url = Pdf) =>
        /\ calls.prompt = 0 /\ calls.edit = 0 /\ calls.submit = 0
        /\ Ended(Cont1) => \A id \in DOMAIN records : records[id].status = "failed"

Stages == {"generate_prompt", "edit_product_image", "generate_product_video"}

\* C10: the stages of a run execute in the order of the chain.  ImageEditStage
\* starts only after PromptStage has returned; VideoGenStage only after
\* ImageEditStage has returned or was never scheduled; the notifier only
\* after VideoGenStage has written 'completed'; and at no time is more than
\* one stage of the run waiting in the broker or executing.
C10_ChainOrder ==
    /\ Did("start", "edit_product_image", "edit_product_image") =>
          Did("return", "generate_prompt", "generate_prompt")
    /\ Did("start", "generate_product_video", "generate_product_video") =>
          /\ Did("return", "generate_prompt", "generate_prompt")
          /\ \/ Did("return", "edit_product_image", "edit_product_image")
             \/ ~Did("sched", "edit_product_image", Cont1)
    /\ ( \/ Did("sched", "send_video_ready_email", "generate_product_video")
         \/ Did("start", "send_video_ready_email", "send_video_ready_email") ) =>
          Did("write", "completed", "generate_product_video")
    /\ Cardinality({t \in queue \cup running : t.name \in Stages}) <= 1

\* the notifier has started at the end of a run that went through
\* ImageEditStage
C10_Witness ==
    /\ Did("start", "send_video_ready_email", "send_video_ready_email")
    /\ Did("return", "edit_product_image", "edit_product_image")

Cont2 == "continue_with_video_generation"

\* the continuation after ImageEditStage has run and found the entry of the run
Cont2RanWithState == Ended(Cont2) /\ ~Did("state_missing", OrchTaskId, Cont2)

\* ImageEditStage has returned a result that is not a success
EditFailed ==
    /\ "edit_product_image" \in DOMAIN results
    /\ results["edit_product_image"].value.status # "success"

\* C11: when ImageEditStage hands on a result whose status is 'failed', the
\* continuation that has loaded the state of the run marks the run failed,
\* and VideoGenStage is never scheduled, started or its collaborator called;
\* the continuation schedules VideoGenStage only for a result whose status is
\* 'success'.
C11_EditFailureStopsRun ==
    /\ EditFailed =>
          /\ results["edit_product_image"].value.status = "failed"
          /\ Cont2RanWithState =>
                \A id \in DOMAIN records :
                    /\ records[id].status = "failed"
                    /\ records[id].error_message.len > 0
          /\ \A i \in DOMAIN log :
                log[i][2] \notin {"generate_product_video", "send_video_ready_email"}
          /\ calls.submit = 0 /\ calls.mail = 0
          /\ Ended(Cont2) => queue = {} /\ running = {}
    /\ Did("sched", "generate_product_video", Cont2) =>
          results["edit_product_image"].value.status = "success"

\* the continuation has dealt with a failed image edit
C11_Witness ==
    /\ EditFailed
    /\ Cont2RanWithState
    /\ \E id \in DOMAIN records : records[id].status = "failed"

Video == "generate_product_video"

\* VideoGenStage has returned
VideoEnded == Video \in DOMAIN results

\* C12: when VideoGenStage succeeds, the run is completed, its output
\* reference is the video reference the stage returned and its error message
\* is empty; when VideoGenStage fails, the run is failed with an error
\* message; and the notifier is scheduled only by a VideoGenStage that
\* succeeded.
C12_VideoOutcomeRecorded ==
    /\ VideoEnded =>
          LET res == results[Video].value IN
          \A id \in DOMAIN records :
              IF res.status = "success"
              THEN /\ records[id].status = "completed"
                   /\ records[id].output_video_url = res.video_url
                   /\ records[id].output_video_url \in {MockUrl, VideoUrl}
                   /\ records[id].error_message = NoError
              ELSE /\ res.status = "failed"
                   /\ records[id].status = "failed"
                   /\ records[id].error_message.len > 0
                   /\ \A i \in DOMAIN log : log[i][2] # "send_video_ready_email"
                   /\ calls.mail = 0
    /\ (\E i \in DOMAIN log : log[i][2] = "send_video_ready_email") =>
          /\ VideoEnded
          /\ results[Video].value.status = "success"

\* VideoGenStage has succeeded and the notifier waits in the broker
C12_Witness ==
    /\ VideoEnded
    /\ results[Video].value.status = "success"
    /\ \E t \in queue : t.name = "send_video_ready_email"

\* the text of the error raised when the poll loop is exhausted
PollTimeout == "Fal AI job did not complete"

\* the polls made are bounded by max_polls, and the loop left after max_polls
\* polls that ended nothing has failed with the time-out error
C13_PollingBounded ==
    /\ fal.attempt <= 45
    /\ fal.phase = "polling" => fal.attempt < 45
    /\ fal.attempt = 45 => fal.phase = "failed" /\ fal.err.cause = PollTimeout
    /\ \A id \in DOMAIN records :
          records[id].error_message.cause = PollTimeout =>
              /\ records[id].status = "failed"
              /\ VideoEnded
              /\ results[Video].value.status = "failed"
              /\ results[Video].value.error_type = "FalServiceError"

\* a poll either ends the loop or is counted; and the stage that returns
\* after the loop was exhausted returns a failed result, with the run failed
\* on the time-out error and no notifier scheduled
C13_PollStep ==
    /\ (fal.phase = "polling" /\ fal' # fal) =>
          \/ fal'.phase \in {"completed", "failed"}
          \/ fal'.phase = "polling" /\ fal'.attempt = fal.attempt + 1
    /\ (fal.attempt = 45 /\ fal'.phase = "returned") =>
          /\ results'[Video].value.status = "failed"
          /\ results'[Video].value.error.cause = PollTimeout
          /\ \A id \in DOMAIN records' :
                /\ records'[id].status = "failed"
                /\ records'[id].error_message.cause = PollTimeout
          /\ queue' = {} /\ running' = {}

\* C13: when every status poll of the video job leaves the job unfinished,
\* VideoGenStage stops after 45 polls, returns a failed result with the
\* time-out error, and the run ends failed; the poll loop always ends.
C13_PollTimeout == []C13_PollingBounded /\ [][C13_PollStep]_vars

\* a run has ended failed on the time-out of the poll loop
C13_Witness ==
    \E id \in DOMAIN records :
        /\ records[id].status = "failed"
        /\ records[id].error_message.cause = PollTimeout

\* the statuses of a job that has ended without a video
FailureStatuses == {"FAILED", "CANCELLED", "ERROR"}

\* the text the collaborator gives for the failure of a job
JobFailed == "logs"

\* C14: a poll that reports the job failed, cancelled or in error is the last
\* one: the polling stops there, the stage fails with the message of the
\* collaborator and the run is marked failed.
C14_FailureStatusIsTerminal ==
    fal.status \in FailureStatuses =>
        /\ fal.phase \in {"failed", "returned"}
        /\ fal.phase = "failed" => fal.err.cause = JobFailed
        /\ fal.phase = "returned" =>
              /\ results[Video].value.status = "failed"
              /\ \A id \in DOMAIN records :
                    /\ records[id].status = "failed"
                    /\ records[id].error_message.cause = JobFailed

\* the first poll of a call that fails with a RequestException, when it is
\* not the last turn of the loop, is counted and the polling goes on; and a
\* poll that reports COMPLETED after such a failure ends the polling with
\* the job completed
C15_PollStep ==
    /\ (fal.phase = "polling" /\ ~fal.neterr /\ fal'.neterr
            /\ fal.attempt < 45 - 1) =>
          /\ fal'.phase = "polling"
          /\ fal'.attempt = fal.attempt + 1
          /\ fal'.err = NoError
    /\ (fal.phase = "polling" /\ fal.neterr /\ fal'.status = "COMPLETED") =>
          fal'.phase = "completed"

\* the stage that has polled through a network error to a job reported
\* completed, with the URL of its result, fails on nothing that polling
\* can raise
C15_CompletedAfterError ==
    (VideoEnded /\ fal.neterr /\ fal.status = "COMPLETED"
        /\ results[Video].value.status = "failed") =>
            results[Video].value.error.cause
                \notin {"network", PollTimeout, JobFailed}

\* C15: a network error on one poll does not end the stage: the polling goes
\* on, and a later poll that reports the job completed still makes the
\* stage succeed.
C15_PollErrorTolerated == [][C15_PollStep]_vars /\ []C15_CompletedAfterError

\* a run has completed although one of its polls failed on the network
C15_Witness ==
    /\ fal.neterr
    /\ VideoEnded
    /\ results[Video].value.status = "success"
    /\ \A id \in DOMAIN records : records[id].status = "completed"

----------------------------------------------------------------------------
(* Properties of the wrapper, under WrapperSpec.                           *)

\* the classes of the exceptions the body has raised, execution by
\* execution ("value" for an execution that returned)
BodyEnds == [i \in DOMAIN EventsOf("body") |-> EventsOf("body")[i][2]]

\* every execution so far has ended in an exception that retry_for matches
AlwaysTransient == \A i \in DOMAIN BodyEnds : BodyEnds[i] \in TransientClasses

\* the wrapped task has come to its result
WrappedEnded ==
    /\ "task" \in DOMAIN results
    /\ results.task.kind = "return"
    /\ queue = {} /\ running = {}

\* C16: a task wrapped with max_retries = N whose body raises an exception of
\* retry_for at every execution is executed exactly N + 1 times, and the
\* last execution returns a failed result with retries_exhausted true
\* instead of raising.
C16_RetriesExhausted ==
    AlwaysTransient =>
        /\ calls.body <= request.max_retries + 1
        /\ Len(BodyEnds) < request.max_retries + 1 => ~WrappedEnded
        /\ (Len(BodyEnds) = request.max_retries + 1) =>
              /\ WrappedEnded
              /\ calls.body = request.max_retries + 1
              /\ results.task.value.status = "failed"
              /\ "retries_exhausted" \in DOMAIN results.task.value
              /\ results.task.value.retries_exhausted = TRUE
              /\ results.task.value.error_type = results.body.exc.cls

\* the task wrapped with max_retries = 3 has ended after 4 executions that
\* all raised an exception of retry_for
C16_Witness ==
    /\ request.max_retries = 3
    /\ AlwaysTransient
    /\ WrappedEnded
    /\ calls.body = 4

\* the wrapper has answered an execution: results holds how the body ended
\* and what the wrapper made of it
Wrapped == "task" \in DOMAIN results

\* the wrapper has raised Retry: the one task_self.retry raises for an
\* exception of retry_for, or the one the body raised, passed through
RaisedRetry(b, w) ==
    \/ w.kind = "retry" /\ b.kind = "raise" /\ w.exc = b.exc
    \/ w.kind = "raise" /\ w.exc.cls = "Retry" /\ w = b

\* C17: whatever the body does, the wrapper returns the value of the body
\* unchanged, returns a failed result, or raises Retry; no other exception
\* leaves it.
C17_WrapperOutcomes ==
    Wrapped =>
        LET b == results.body
            w == results.task
        IN  \/ b.kind = "return" /\ w = b
            \/ /\ b.kind = "raise"
               /\ w.kind = "return"
               /\ w.value.status = "failed"
               /\ w.value.error_type = b.exc.cls
            \/ b.kind = "raise" /\ RaisedRetry(b, w)

\* the wrapper has answered an exception with a failed result, after it had
\* answered others with Retry
C17_Witness ==
    /\ Wrapped
    /\ calls.body > 1
    /\ results.body.kind = "raise"
    /\ results.task.kind = "return"
    /\ results.task.value.status = "failed"

\* C18: an exception that retry_for does not match makes the wrapper return
\* at once, whatever the retries behind the task, a failed result with the
\* text of the error, the name of the class and the id of the task; the
\* task is not retried.
C18_FatalReturnsFailed ==
    (Wrapped /\ results.body.kind = "raise"
        /\ results.body.exc.cls \in FatalClasses) =>
            /\ results.task =
                 Returned([status |-> "failed",
                           error |-> Str(results.body.exc),
                           error_type |-> results.body.exc.cls,
                           task_id |-> WrappedTask])
            /\ queue = {} /\ running = {}

\* the third execution of a task, two retries behind it, has raised an
\* exception that retry_for does not match, and the task has returned
C18_Witness ==
    /\ Wrapped
    /\ results.body.kind = "raise"
    /\ results.body.exc.cls = "ValueError"
    /\ calls.body = 3
    /\ results.task.kind = "return"

----------------------------------------------------------------------------
(* Properties of the stages and their collaborators, under Spec.           *)

\* the ceilings the decorator is given for the two stages
RetryCeiling ==
    [generate_prompt |-> 3, edit_product_image |-> 2]

\* the texts of the collaborators' errors that a later call may not meet
\* again: the network failing, the rate limit
TransientCauses == {"network", "rate limit"}

\* the executions a stage has begun
Executions(stage) ==
    Len(SelectSeq(EventsOf("start"), LAMBDA e : e[2] = stage))

\* C19: a transient error of the collaborator of PromptStage or
\* ImageEditStage makes the wrapper execute the stage again, up to its
\* ceiling (3 and 2), before a failed result reaches the continuation.
C19_TransientErrorRetried ==
    \A stage \in DOMAIN RetryCeiling :
        (/\ stage \in DOMAIN results
         /\ results[stage].value.status = "failed"
         /\ results[stage].value.error.cause \in TransientCauses) =>
            /\ Executions(stage) = RetryCeiling[stage] + 1
            /\ "retries_exhausted" \in DOMAIN results[stage].value

\* the text of the error of a response without content
NoContent == "No content found in response"

\* C20: a response of the prompt collaborator that is a success without
\* content is fatal: PromptStage fails after that one call and makes no
\* other.
C20_NoContentIsFatal ==
    (/\ "generate_prompt" \in DOMAIN results
     /\ results["generate_prompt"].value.status = "failed"
     /\ results["generate_prompt"].value.error.cause = NoContent) =>
        calls.prompt = 1

----------------------------------------------------------------------------
(* Properties of the tasks that act on one row, under RecordSpec.          *)

NotifierTask == "send_video_ready_email"

\* the step is an execution of the notifier
NotifierStep ==
    /\ Len(log') > Len(log)
    /\ log'[Len(log) + 1] = Ev("start", NotifierTask, NotifierTask)

\* the row has what a notification needs
Notifiable(r) ==
    /\ r.email # ""
    /\ r.status = "completed"
    /\ r.output_video_url \notin {"", None}

\* an execution of the notifier sends a mail only for a row that has an
\* address, is completed and has an output; for a row that lacks one of
\* the three it sends nothing and returns a skipped result
C21_NotifierStep ==
    NotifierStep =>
        /\ calls'.mail > calls.mail =>
              /\ RunId \in DOMAIN records
              /\ Notifiable(records[RunId])
              /\ calls'.mail = calls.mail + 1
        /\ (RunId \in DOMAIN records /\ ~Notifiable(records[RunId])) =>
              /\ calls'.mail = calls.mail
              /\ results'[NotifierTask].kind = "return"
              /\ results'[NotifierTask].value.status = "SKIPPED"

\* C21: the Notifier sends a notification only if the run, as it reloads it,
\* has a requester email, the status completed and an output reference; if
\* one of the three is missing it sends nothing and returns a skipped
\* result.
C21_NotifierGuards == [][C21_NotifierStep]_vars

\* the notifier has skipped a row that has an address and an output but is
\* not completed
C21_Witness ==
    /\ NotifierTask \in DOMAIN results
    /\ results[NotifierTask].value.status = "SKIPPED"
    /\ calls.mail = 0
    /\ records[RunId].email # ""
    /\ records[RunId].output_video_url = VideoUrl
    /\ records[RunId].status = "failed"

\* an execution of the notifier leaves the table as it found it
C22_NotifierStep == NotifierStep => records' = records

\* C22: no execution of the Notifier, whether it sends, skips or fails,
\* changes the status, the output reference or the error message of the
\* run: a run completed before the Notifier runs is completed with the same
\* output after it.
C22_NotifierWritesNothing == [][C22_NotifierStep]_vars

\* the notifier has failed on a completed run, which is completed still
C22_Witness ==
    /\ NotifierTask \in DOMAIN results
    /\ results[NotifierTask].value.status = "failed"
    /\ RunId \in DOMAIN records
    /\ records[RunId].status = "completed"
    /\ records[RunId].output_video_url = VideoUrl

----------------------------------------------------------------------------
(* Further properties of a run, under Spec.                                *)

\* the limit of retries of the notifier
NotifierRetries == 3

\* C23: when the sending of the notification fails (an SMTP error, say), the
\* Notifier task is retried: it is executed again later, up to its limit of
\* 3 retries.
C23_NotifierRetried ==
    (/\ NotifierTask \in DOMAIN results
     /\ results[NotifierTask].value.status = "failed"
     /\ results[NotifierTask].value.error.cause = "smtp") =>
        /\ Executions(NotifierTask) = NotifierRetries + 1
        /\ "retries_exhausted" \in DOMAIN results[NotifierTask].value

PromptTask == "generate_prompt"

\* the step is the end of an execution of PromptStage
PromptStep == PromptTask \notin DOMAIN results /\ PromptTask \in DOMAIN results'

\* the approved rows of the table whose title is the title of the run, the
\* case of the letters apart
Reusable ==
    {i \in DOMAIN prompts :
        /\ prompts[i].is_approved
        /\ "product_title" \in DOMAIN request
        /\ Lower(prompts[i].product_title) = Lower(request.product_title)}

\* the stage gets as far as the look-up: the service has its API key and
\* the run has a title, a description and an address
ReachesLookup ==
    /\ RequiredInput \subseteq DOMAIN request
    /\ MissingFields(request, {"product_title", "product_description", "email"}) = {}
    /\ ~ /\ results'[PromptTask].value.status = "failed"
         /\ results'[PromptTask].value.error_type = "OpenRouterError"

\* with a row to reuse, PromptStage calls the collaborator not once, creates
\* no row, and, when it gets as far as the look-up, returns the identifier
\* of a row it found, whoever asked for that row
C24_PromptStep ==
    (PromptStep /\ Reusable # {}) =>
        /\ calls'.prompt = calls.prompt
        /\ prompts' = prompts
        /\ ReachesLookup =>
              /\ results'[PromptTask].value.status = "success"
              /\ \E i \in Reusable :
                    /\ results'[PromptTask].value.prompt_id = prompts[i].id
                    /\ results'[PromptTask].value.prompt_text = prompts[i].prompt_text

\* C24: if an approved PromptRecord whose title matches case-insensitively
\* exists when the PromptStage of a run executes, the stage makes no call to
\* the prompt-generation collaborator, creates no PromptRecord and returns
\* the identifier of the existing record, whatever the requester email of
\* the run.
C24_PromptReused == [][C24_PromptStep]_vars

\* PromptStage has returned the row of another requester, whose title
\* differs in case, without a call
C24_Witness ==
    /\ PromptTask \in DOMAIN results
    /\ results[PromptTask].value.status = "success"
    /\ results[PromptTask].value.prompt_id = "1"
    /\ calls.prompt = 0
    /\ Len(prompts) = 1
    /\ prompts[1].product_title # request.product_title
    /\ prompts[1].email # request.email

\* the step is a completion
CompletionStep ==
    /\ Len(log') > Len(log)
    /\ log'[Len(log) + 1] = Ev("write", "completed", Video)

\* the URLs of the completions applied, in their order
Outputs == [i \in DOMAIN EventsOf("output") |-> EventsOf("output")[i][2]]

\* a completion writes the status, the URL and the empty error message to
\* the row and nothing else to the table; applied with the URL of the
\* completion before it, it leaves the table as that one left it
C25_CompletionStep ==
    CompletionStep =>
        LET X == Outputs'[Len(Outputs')] IN
        /\ DOMAIN records' = DOMAIN records
        /\ Cardinality(DOMAIN records') = 1
        /\ records'[RunId] = [records[RunId] EXCEPT !.status = "completed",
                                                    !.output_video_url = X,
                                                    !.error_message = NoError]
        /\ (Len(Outputs) > 0 /\ Outputs[Len(Outputs)] = X) => records' = records

\* C25: the transition 'mark completed with output X' applied twice to a run
\* gives the state it gives applied once: status completed, output X, no
\* error message, one run record still.
C25_CompletedIdempotent == [][C25_CompletionStep]_vars

\* the transition has been applied twice with the same URL
C25_Witness ==
    /\ Len(Outputs) = 2
    /\ Outputs[1] = Outputs[2]
    /\ records[RunId].status = "completed"
    /\ records[RunId].output_video_url = Outputs[2]

----------------------------------------------------------------------------
(* Properties of a run under at-least-once delivery, under RedeliverySpec. *)

\* C26: once the status of a run is completed or failed, no later action
\* changes its status or its output reference, even when the queue delivers
\* a task of the run more than once: a completed run is never turned into
\* failed nor a failed run into completed.
C26_TerminalIsFinal ==
    [][\A id \in DOMAIN records :
          records[id].status \in {"completed", "failed"} =>
              /\ records'[id].status = records[id].status
              /\ records'[id].output_video_url = records[id].output_video_url]_vars

----------------------------------------------------------------------------
(* The run from end to end, under Spec.                                    *)

\* nothing of the infrastructure has failed in the run: the table, the
\* store and the broker have done what they were asked
NoFault ==
    \A i \in DOMAIN log :
        log[i][1] \notin {"create_failed", "setex_failed", "sched_failed",
                          "write_failed", "state_missing"}

\* the rows of the prompt table that the run has created
Created == {i \in DOMAIN prompts : prompts[i].email = request.email}

\* the run has all its fields, does not skip the image edit, found no row
\* to reuse, and its three collaborators have done their work: VideoGenStage
\* has returned the URL of the video the job has made
AllSucceeded ==
    /\ DOMAIN request = DOMAIN BaseInput
    /\ ~request.skip_image_editing
    /\ \A i \in Reusable : i \in Created
    /\ VideoEnded
    /\ results[Video].value.status = "success"
    /\ results[Video].value.video_url = VideoUrl
    /\ NoFault

\* such a run has gone from pending through processing and processing_video
\* to completed, with one prompt row created, one call of the image edit
\* and one video job
C27_EndToEnd ==
    AllSucceeded =>
        /\ Did("create", RunId, "orchestrator")
        /\ Writes = <<"processing", "processing_video", "completed">>
        /\ DOMAIN records = {RunId}
        /\ records[RunId].status = "completed"
        /\ records[RunId].output_video_url = VideoUrl
        /\ Cardinality(Created) = 1
        /\ calls.edit = 1
        /\ calls.submit = 1

\* the row of a run is created in the status pending: that is its status
\* as long as no status has been written to it
C27_CreatedPending ==
    (records = << >> /\ records' # << >> /\ Writes' = << >>) =>
        \A id \in DOMAIN records' : records'[id].status = "pending"

\* C27: a run without skip-image-edit whose three collaborators all succeed,
\* with no matching PromptRecord beforehand, passes through the statuses
\* pending, processing and processing_video and ends completed with a
\* non-empty output reference, with exactly one PromptRecord created, one
\* call of the image-edit collaborator and one video job submitted.
C27_HappyPath == []C27_EndToEnd /\ [][C27_CreatedPending]_vars

\* the run of the lamp has ended so
C27_Witness ==
    /\ AllSucceeded
    /\ request = BaseInput
    /\ records[RunId].status = "completed"

\* C28: for an input that lacks a required field (title, description,
\* requester email or source image) the start of the pipeline fails
\* validation: no run record is created, no entry is written to the state
\* store and no stage is scheduled.
C28_MissingFieldRejected ==
    (request # << >> /\ MissingFields(request, RequiredInput) # {}) =>
        /\ records = << >>
        /\ store = << >>
        /\ EventsOf("sched") = << >>
        /\ EventsOf("setex") = << >>

----------------------------------------------------------------------------
(* The delay of a retry, under WrapperSpec.                                *)

\* 1, 2, 4 for the retry counts 0, 1, 2
Backoff == <<1, 2, 4>>

----------------------------------------------------------------------------
(* The state store, under Spec.                                            *)

\* the step is the execution of the orchestrator
OrchestratorStep ==
    /\ Len(log') > Len(log)
    /\ log'[Len(log')] = Ev("return", "orchestrator", "orchestrator")

\* only the orchestrator writes the store; what else changes it is the
\* expiry of the entry, which no task of the run brings about
C30_StoreStep ==
    store' # store =>
        \/ OrchestratorStep /\ store = << >>
        \/ store' = << >> /\ log' = log

\* the entry of the run, while it is there, is the input of the run with the
\* id of its row, as the orchestrator wrote it, and it was written once
C30_StoreValue ==
    /\ Len(EventsOf("setex")) <= 1
    /\ store # << >> =>
          /\ DOMAIN store = {StateKey(OrchTaskId)}
          /\ store[StateKey(OrchTaskId)].value = Merge(request, [video_generation_id |-> RunId])
          /\ EventsOf("setex") = <<Ev("setex", OrchTaskId, "orchestrator")>>

\* C30: the State Store entry of a run is written exactly once, by the
\* orchestrator, and never written, overwritten or deleted by PromptStage,
\* ImageEditStage, VideoGenStage, the continuations or the Notifier: until
\* it expires its value is at every read of a continuation what the
\* orchestrator wrote.
C30_StoreWrittenOnce == []C30_StoreValue /\ [][C30_StoreStep]_vars

\* the run has gone through both continuations and the notifier with its
\* entry still in the store
C30_Witness ==
    /\ store # << >>
    /\ Ended(Cont1) /\ Ended(Cont2)
    /\ NotifierTask \in DOMAIN results

----------------------------------------------------------------------------
(* The columns of the run record, under Spec.                              *)

\* the column holds no text
Empty(v) == v \in {"", None}

MaxErrorLen == 255

\* C32: every error message written to a run record, by the orchestrator,
\* a continuation or VideoGenStage, has at most 255 characters, whatever
\* the length of the text of the exception or of the collaborator.
C32_ErrorMessageBounded ==
    \A id \in DOMAIN records : records[id].error_message.len <= MaxErrorLen

----------------------------------------------------------------------------
(* The job submitted to the video collaborator, under Spec.                *)

\* the payloads of the jobs submitted so far
Submitted == {fal.payload[i] : i \in DOMAIN fal.payload}

\* the image of the run when the video is made: the original one when the
\* edit was skipped, the edited one otherwise
RunImage ==
    IF SkipRequested(request) THEN request.file_url
    ELSE results["edit_product_image"].value.edited_image_url

\* C33: the job submitted to the video collaborator carries the image
\* reference of the run (the edited one, or the original one when the edit
\* was skipped), the prompt text PromptStage produced and the requested
\* duration.
C33_JobCarriesRunData ==
    \A p \in Submitted :
        /\ p.image_url = RunImage
        /\ p.prompt = results["generate_prompt"].value.prompt_text
        /\ p.duration = Get(request, "video_duration", "5")

----------------------------------------------------------------------------
(* A failed write of a forward status, under Spec.                         *)

\* the writes of a forward status that failed: the status and the task
FailedWrites ==
    {<<e[2], e[3]>> : e \in {log[i] : i \in {j \in DOMAIN log : log[j][1] = "write_failed"}}}

\* the task could not send the next task
SchedFailed(task) == \E i \in DOMAIN log : log[i][1] = "sched_failed" /\ log[i][3] = task

\* C34: when the write of a run status fails after the stage before it has
\* succeeded ('processing' after PromptStage, 'processing_video' after
\* ImageEditStage, 'completed' after the video generation), the failure is
\* only logged: the task that attempted the write does not mark the run
\* failed, and a continuation still schedules the next stage.
C34_WriteFailureOnlyLogged ==
    \A w \in FailedWrites :
        ~SchedFailed(w[2]) =>
            /\ ~Did("write", "failed", w[2])
            /\ w[2] = "continue_with_image_edit" /\ Ended(w[2])
                  => \E s \in {"edit_product_image", "generate_product_video"} :
                         Did("sched", s, w[2])
            /\ w[2] = "continue_with_video_generation" /\ Ended(w[2])
                  => Did("sched", "generate_product_video", w[2])

----------------------------------------------------------------------------
(* The end of a run, under Spec.                                           *)

\* no message waits in the broker and no task is being executed: every task
\* that was queued has been executed and every call has returned
Quiescent == queue = {} /\ running = {}

\* C35: every run whose record was created reaches 'completed' or 'failed',
\* given that every queued task is executed and every call of a
\* collaborator returns or fails.  On a finite run: once nothing is queued
\* or executing any more, the record of the run is in a terminal status.
C35_RunEnds ==
    Quiescent =>
        \A id \in DOMAIN records : records[id].status \in {"completed", "failed"}

----------------------------------------------------------------------------
(* The jobs submitted to the video collaborator, under Spec.               *)

\* C36: with every task delivered once, at most one video job is submitted
\* for a run, whatever fails: VideoGenStage is executed once and its
\* wrapper never takes the retry branch, as every failure of the video
\* service reaches the wrapper as an exception that is not transient.
C36_OneVideoJob ==
    /\ calls.submit <= 1
    /\ Executions(Video) <= 1
    /\ VideoEnded => results[Video].kind # "retry"

\* the video service failed after the job was submitted, and the stage ended
C36_Witness ==
    /\ VideoEnded
    /\ calls.submit = 1
    /\ Did("write", "failed", Video)
    /\ results[Video].kind = "return"
    /\ results[Video].value.status = "failed"
    /\ results[Video].value.error_type = "FalServiceError"

----------------------------------------------------------------------------
(* The status of the run when VideoGenStage begins, under Spec.            *)

\* an execution of generate_product_video begins
VideoBegins == Executions(Video)' = Executions(Video) + 1

\* C37: VideoGenStage is scheduled only after the status of the run was
\* set to 'processing_video', on the normal path and on the skip path
\* alike: whenever an execution of VideoGenStage begins, the status of the
\* run is 'processing_video'.
C37_VideoStep ==
    VideoBegins =>
        /\ \E c \in ContinuationNames :
              \E i, j \in DOMAIN log :
                  /\ i < j
                  /\ log[i] = Ev("write", "processing_video", c)
                  /\ log[j] = Ev("sched", Video, c)
        /\ DOMAIN records # {}
        /\ \A id \in DOMAIN records : records[id].status = "processing_video"

C37_StatusSetBeforeVideo == [][C37_VideoStep]_vars

\* VideoGenStage has begun on the skip path
C37_Witness ==
    /\ SkipRequested(request)
    /\ Executions(Video) = 1
    /\ Did("write", "processing_video", "continue_with_image_edit")

----------------------------------------------------------------------------
(* The notification of the requester, under Spec.                          *)

\* the positions in the log at which a mail went out
MailsSent == {i \in DOMAIN log : log[i] = Ev("call", "mail", NotifierTask)}

\* C38: at most one notification e-mail is sent for a run, and it is sent
\* only after the status of the run became 'completed'.
C38_OneMailAfterCompleted ==
    /\ calls.mail <= 1
    /\ Cardinality(MailsSent) = calls.mail
    /\ Executions(NotifierTask) <= 1
    /\ \A j \in MailsSent :
          /\ \E i \in 1..(j - 1) : log[i] = Ev("write", "completed", Video)
          /\ \A id \in DOMAIN records : records[id].status = "completed"

\* the mail of a completed run has gone out
C38_Witness ==
    /\ calls.mail = 1
    /\ MailsSent # {}
    /\ \A id \in DOMAIN records : records[id].status = "completed"

----------------------------------------------------------------------------
(* PromptStage of two runs executed by two workers.  get_or_generate_prompt *)
(* reads the table (find_similar_prompt), calls the collaborator and then   *)
(* inserts the new row in a transaction of its own: another worker can act  *)
(* between the read and the insert.  `request` holds the input of each run, *)
(* `queue` the messages of generate_prompt, `running` the tasks that found  *)
(* no row and are at the collaborator, `results` what each task returned.   *)

RunTasks == {"t1", "t2"}

Mug == <<"M", "u", "g">>

PromptTitles == {Lamp, LAMP, Mug}

PromptsInit ==
    /\ request \in [RunTasks -> {[BaseInput EXCEPT !.product_title = title] :
                                    title \in PromptTitles}]
    /\ queue = {Task("generate_prompt", request[run], run, << >>) : run \in RunTasks}
    /\ running = {}
    /\ records = << >>
    /\ prompts \in PromptRowsInit
    /\ store = << >>
    /\ results = << >>
    /\ fal = FalIdle
    /\ calls = [prompt |-> 0, edit |-> 0, submit |-> 0, mail |-> 0]
    /\ log = << >>

\* a worker takes the message of a run: the task ends at once when the
\* service cannot be built, the input is refused or a row is found (nothing
\* is generated then, whatever the collaborator would answer); otherwise it
\* goes to the collaborator
PromptLookup ==
    \E t \in queue : \E serviceOk \in BOOLEAN :
        /\ queue' = queue \ {t}
        /\ LET outs == [i \in 1..RETRY_ATTEMPTS |-> "ok"]
               ends == \/ ~serviceOk
                       \/ MissingFields(t.arg, {"product_title", "product_description",
                                                "email"}) # {}
                       \/ FindSimilarPrompt(prompts, t.arg.product_title) # << >>
               r    == PromptBody(t.arg, t.parent, prompts, serviceOk, outs, ShortErr)
           IN  IF ends THEN
                   /\ results' = (t.parent :> TaskErrorHandler(r.out, 0, 3, "prompt"))
                                 @@ results
                   /\ log' = Logged(log, <<Ev("start", "generate_prompt", t.parent),
                                           Ev("return", "generate_prompt", t.parent)>>)
                   /\ UNCHANGED running
               ELSE
                   /\ running' = running \cup {t}
                   /\ log' = Logged(log, <<Ev("start", "generate_prompt", t.parent)>>)
                   /\ UNCHANGED results
        /\ UNCHANGED <<request, records, prompts, store, fal, calls>>

\* the collaborator answers a task that found no row: the new row is
\* inserted, or the task returns the failure
PromptSave ==
    \E t \in running :
    \E outs \in [1..RETRY_ATTEMPTS -> PromptCallOutcomes], n \in ErrLens :
        /\ running' = running \ {t}
        /\ LET r == PromptResult(GenerateAndSave(prompts, t.arg, outs, n), t.parent)
           IN  /\ prompts' = r.rows
               /\ calls' = [calls EXCEPT !.prompt = @ + r.posts]
               /\ results' = (t.parent :> TaskErrorHandler(r.out, 0, 3, "prompt"))
                             @@ results
               /\ log' = Logged(log,
                              (IF Len(r.rows) > Len(prompts)
                               THEN <<Ev("create", "prompt", t.parent)>> ELSE << >>)
                              \o <<Ev("return", "generate_prompt", t.parent)>>)
        /\ UNCHANGED <<request, queue, records, store, fal>>

PromptsNext == PromptLookup \/ PromptSave

PromptsSpec == PromptsInit /\ [][PromptsNext]_vars

\* C39: after any interleaving of the PromptStage executions of different
\* runs there is at most one approved PromptRecord for a title, compared
\* without regard to case: two runs with the same title never both create
\* a PromptRecord, even when they are executed concurrently.
C39_OneApprovedPerTitle ==
    /\ \A i, j \in DOMAIN prompts :
          /\ i # j
          /\ prompts[i].is_approved /\ prompts[j].is_approved
          => Lower(prompts[i].product_title) # Lower(prompts[j].product_title)
    /\ \A a, b \in RunTasks :
          /\ a # b
          /\ Lower(request[a].product_title) = Lower(request[b].product_title)
          => ~ (Did("create", "prompt", a) /\ Did("create", "prompt", b))

----------------------------------------------------------------------------
(* The form submissions.  index_view reads the usage of the address         *)
(* (IPUsage.get_usage_count), validates and uploads the image, sends the    *)
(* orchestrator and then records the usage (IPUsage.record_usage): each of  *)
(* these is a statement of its own of one request, and the web server       *)
(* handles several requests at a time.  `request` holds the address of each *)
(* submission, `records` the table IPUsage (address to                      *)
(* free_generations_used), `running` the submissions that passed the check  *)
(* with the place they stand at, `queue` the orchestrator tasks sent and    *)
(* `results` the answer each submission got.                                *)

Submissions == {"s1", "s2", "s3"}

\* request.client_ip: an address, or nothing when it cannot be determined
Addresses == {"10.0.0.1", "10.0.0.2", ""}

\* `if usage_count >= 1`: the number of free videos of an address
FreeLimit == 1

\* IPUsage.get_usage_count
GetUsageCount(rows, ip) == IF ip \in DOMAIN rows THEN rows[ip] ELSE 0

\* IPUsage.record_usage: get_or_create with usage 1, or the update with F()
RecordUsage(rows, ip) ==
    IF ip \in DOMAIN rows THEN [rows EXCEPT ![ip] = @ + 1]
    ELSE (ip :> 1) @@ rows

\* what the validation of the image, the upload and apply_async come to
UploadOutcomes == {"ok", "invalid_image", "upload_failed", "dispatch_failed"}

SubmitInit ==
    /\ request \in [Submissions -> Addresses]
    /\ queue = {}
    /\ running = {}
    /\ records = << >>
    /\ prompts = << >>
    /\ store = << >>
    /\ results = << >>
    /\ fal = FalIdle
    /\ calls = [prompt |-> 0, edit |-> 0, submit |-> 0, mail |-> 0]
    /\ log = << >>

\* the submissions that have not been handled yet
Waiting ==
    {sub \in Submissions :
        /\ sub \notin DOMAIN results
        /\ \A r \in running : r.submission # sub}

\* the rate limiting check of a valid form
IndexViewCheck ==
    \E sub \in Waiting :
        LET ip == request[sub] IN
        /\ IF ip = "" THEN
               /\ results' = (sub :> "origin_unknown") @@ results
               /\ UNCHANGED running
           ELSE IF GetUsageCount(records, ip) >= FreeLimit THEN
               /\ results' = (sub :> "limit_exceeded") @@ results
               /\ UNCHANGED running
           ELSE
               /\ running' = running \cup {[submission |-> sub, at |-> "checked"]}
               /\ UNCHANGED results
        /\ UNCHANGED <<request, queue, records, prompts, store, fal, calls, log>>

\* the validation of the image, the upload and the dispatch of the
\* orchestrator
IndexViewDispatch ==
    \E r \in running : \E o \in UploadOutcomes :
        LET sub == r.submission
            ip  == request[sub]
        IN
        /\ r.at = "checked"
        /\ IF o = "ok" THEN
               /\ queue' = queue \cup
                      {Task("orchestrator", [requesting_ip |-> ip] @@ BaseInput,
                            sub, << >>)}
               /\ running' = (running \ {r}) \cup
                                {[submission |-> sub, at |-> "dispatched"]}
               /\ UNCHANGED results
           ELSE
               /\ running' = running \ {r}
               /\ results' = (sub :> o) @@ results
               /\ UNCHANGED queue
        /\ UNCHANGED <<request, records, prompts, store, fal, calls, log>>

\* the record of the usage after the dispatch; its failure is only logged
IndexViewRecord ==
    \E r \in running : \E dbOk \in BOOLEAN :
        LET sub == r.submission
            ip  == request[sub]
        IN
        /\ r.at = "dispatched"
        /\ running' = running \ {r}
        /\ records' = IF dbOk THEN RecordUsage(records, ip) ELSE records
        /\ results' = (sub :> "started") @@ results
        /\ UNCHANGED <<request, queue, prompts, store, fal, calls, log>>

SubmitNext == IndexViewCheck \/ IndexViewDispatch \/ IndexViewRecord

SubmitSpec == SubmitInit /\ [][SubmitNext]_vars

\* the pipeline runs started for an address
RunsOf(ip) == {t \in queue : t.name = "orchestrator" /\ t.arg.requesting_ip = ip}

\* C40: for any interleaving of the form submissions of one address, at
\* most one pipeline run is started for that address: the limit of free
\* generations is 1.
C40_OneRunPerAddress ==
    \A ip \in Addresses : Cardinality(RunsOf(ip)) <= FreeLimit

====
